---- MODULE Spec2Model ----
\* A model of the per-table serial executor, the flush scheduler and the
\* alter-schema / alter-options procedures of the analytic engine.
\*
\*   analytic_engine/src/instance/serial_executor.rs   TableFlushScheduler
\*   analytic_engine/src/instance/mod.rs               Instance::manual_flush_table
\*   analytic_engine/src/instance/alter.rs             alter schema / options
\*
\* and of the write-ahead log and the storage codecs below it:
\*
\*   wal/src/message_queue_impl/region.rs              Region (message queue WAL)
\*   wal/src/table_kv_impl/namespace.rs                Namespace (table-kv WAL)
\*   wal/src/kv_encoder.rs                             LogKeyEncoder
\*   common_types/src/row/contiguous.rs                ContiguousRowWriter/Reader
\*   analytic_engine/src/sst/parquet/builder.rs        ParquetSstBuilder
EXTENDS Integers, Sequences, FiniteSets, TLC

\* ---------------------------------------------------------------- bounds

\* Number of client threads operating on the one table that is modelled.
NumProcs == 2
\* Total number of table operations the clients start in one run.
MaxOps == 2
\* Schema versions that requests may carry are 0..MaxVersion.
MaxVersion == 3
\* Number of process crashes followed by a re-open in one run (SpecCrash).
MaxCrashes == 1
\* Number of concurrent Region::write callers (SpecRegion).
NumWriters == 2
\* Number of tables that share the region.
NumTables == 1
\* Concurrent callers of Region::mark_delete_to.
NumMarkers == 2
\* Total number of Region::mark_delete_to calls that sync in one run.
MaxMarks == 2
\* Largest number of entries in one log batch.
MaxBatch == 2
\* Total number of Region::write calls in one run.
MaxWrites == 2
\* Number of WAL shard tables of a bucket (SpecMonitor).
NumShards == 2
\* The clock runs from day 0 to day MaxDays.
MaxDays == 4
\* Threads that ask the namespace for a bucket, and the calls they make in
\* one run (SpecBucket).
NumCallers == 2
MaxCalls == 2
\* Threads that write to the regions of a namespace, and the writes they
\* make in one run (SpecRegions).
NumOpeners == 2
MaxRegionWrites == 3
\* Threads that call insert_notifier, keys of the requests, notifiers
\* passed in and take_notifiers calls in one run (SpecDedup).
NumRequesters == 2
NumRequestKeys == 1
MaxNotifiers == 2
\* Regions of the table-kv namespace and entries written to them
\* (SpecCleaner).
NumKvRegions == 2
MaxKvWrites == 3
\* The u64 samples lie around 256 ^ 0 .. 256 ^ MaxByteExp (SpecKey).
MaxByteExp == 2
\* Number of columns of the table schema (SpecRow).
NumColumns == 3
\* Record batches of a stream and rows of a record batch (SpecSst).
MaxBatches == 3
MaxBatchRows == 2

Procs == 1..NumProcs
Jobs == 1..MaxOps
Versions == 0..MaxVersion
\* Errors a flush job may return.
FlushErrors == {"E1", "E2"}
\* Values an alter-options request may carry; "bad" is rejected by the merge.
OptionInputs == {"bad", "o2"}
OpKinds == {"write", "flush", "alter_schema", "alter_options", "drop"}

\* ----------------------------------------------------------------- state

VARIABLES
    flush_state,       \* ScheduleSync.state: the FlushState under the mutex
    state_lock,        \* ScheduleSync.state: 0 = unlocked, else the guard's holder
    notifier_version,  \* ScheduleSync.notifier: version of the watch channel
    watcher_seen,      \* TableFlushScheduler.state_watcher: version last seen
    serial_exec,       \* TableData.serial_exec: 0 = free, else the holder
    pc,                \* position of every client thread
    op,                \* the operation every client thread is executing
    ops_started,       \* number of operations started so far
    next_job,          \* number of flush_sequentially calls made so far
    jobs,              \* per flush_sequentially call: its task and its history
    started,           \* the calls whose flush job began to run, in that order
    schema_version,    \* TableData: version of the in-memory schema
    options,           \* TableData: in-memory table options
    is_dropped,        \* TableData.is_dropped
    last_sequence,     \* TableData.last_sequence
    last_flushed,      \* TableData.last_flushed_sequence
    mem_last,          \* largest sequence inserted into the memtable
    wal,               \* the WAL region of the table: a sequence of entries
    manifest,          \* the durable meta data: schema version, options, dropped
    alter_errs,        \* WAL sequences written by alters that returned an error
    crashes            \* number of crashes so far

\* The WAL region on a message queue (wal/src/message_queue_impl/region.rs).
VARIABLES
    region_meta,       \* RegionInner.region_meta: per table, its counters
    log_topic,         \* the messages of the region's log topic, by offset
    writers,           \* the Region::write calls in progress
    write_results,     \* the Region::write calls that returned, in that order
    scan,              \* the MessageQueueLogIterator of the scan in progress
    markers,           \* the Region::mark_delete_to calls in progress
    meta_topic,        \* the snapshot records of the region's meta topic
    mark_hist          \* history: the last snapshot taken and its call's result

engineVars == <<flush_state, state_lock, notifier_version, watcher_seen,
                serial_exec, pc,
                op, ops_started, next_job, jobs, started, schema_version,
                options, is_dropped, last_sequence, last_flushed, mem_last,
                wal, manifest, alter_errs, crashes>>

\* The sync of the region's meta snapshot.
syncVars == <<markers, meta_topic, mark_hist>>

regionVars == <<region_meta, log_topic, writers, write_results, scan, syncVars>>

\* The namespace of the table-kv WAL (wal/src/table_kv_impl/namespace.rs).
VARIABLES
    bucket_set,        \* NamespaceInner.bucket_set: the buckets in memory
    meta_table,        \* the bucket records persisted in the meta table
    kv_tables,         \* the WAL shard tables that exist in the table kv
    monitor,           \* the bucket monitor routine: its position and locals
    clock              \* Timestamp::now(), in bucket durations

\* The threads that use the namespace.
VARIABLES
    callers,           \* the calls for a bucket in progress, by thread
    bucket_creator,    \* NamespaceInner.bucket_creator: 0 = free, else holder
    bucket_hist        \* history: the records persisted, the buckets made

accessVars == <<callers, bucket_creator, bucket_hist>>

\* The namespace as Namespace::open makes it, a reader of its log, and the
\* regions it holds.
VARIABLES
    namespace_obj,     \* Namespace: entry, config, handles of the timed tasks
    reader,            \* a read_log call: its bucket list and its position
    regions_by_id,     \* NamespaceInner.regions: region id -> Region
    region_objs,       \* the Region objects made, each with its counter
    region_log,        \* the entries written: region id, sequence number
    openers            \* the calls that open or create a region, by thread

openVars == <<namespace_obj>>
readVars == <<reader>>
regVars == <<regions_by_id, region_objs, region_log, openers>>

\* The request notifiers of the server (server/src/dedup_requests.rs).
VARIABLES
    notifiers,         \* RequestNotifiers.notifiers_by_key
    requesters,        \* the threads that add and take notifiers
    dedup_hist         \* history: the results of the calls

dedupVars == <<notifiers, requesters, dedup_hist>>

\* Everything next to the bucket monitor and the threads that ask for buckets.
moreVars == <<openVars, readVars, regVars, dedupVars>>

namespaceVars == <<bucket_set, meta_table, kv_tables, monitor, clock,
                   accessVars, moreVars>>

VARIABLES
    kv_regions,        \* NamespaceInner.regions: the regions in memory
    kv_region_meta,    \* the persisted meta of every region
    kv_log,            \* the log entries in the shard tables of the buckets
    cleaner,           \* the log cleaner routine: its position and locals
    kv_hist            \* history: the entries written, the deletes that returned

cleanerVars == <<kv_regions, kv_region_meta, kv_log, cleaner, kv_hist>>

\* The inputs and outputs of the encoders.
VARIABLES
    log_key,           \* two WAL log keys and their encodings
    contiguous_row,    \* a row, its contiguous encoding and the views read
    sst_build          \* a RecordBytesReader of the parquet SST builder

pureVars == <<log_key, contiguous_row, sst_build>>

\* Everything outside the table engine.
extVars == <<regionVars, namespaceVars, cleanerVars, pureVars>>

vars == <<engineVars, extVars>>

schedVars == <<flush_state, state_lock, notifier_version, watcher_seen>>
tableVars == <<schema_version, options, is_dropped, last_sequence,
               last_flushed, mem_last>>
storeVars == <<wal, manifest>>

\* ------------------------------------------------------------ FlushState

Ready == [kind |-> "Ready", err_msg |-> ""]
Flushing == [kind |-> "Flushing", err_msg |-> ""]
Failed(msg) == [kind |-> "Failed", err_msg |-> msg]

\* Display of a flush error (`e.to_string()`).
ErrToString(e) == IF e = "E1" THEN "flush failed: E1" ELSE "flush failed: E2"

ErrMsgs == {ErrToString(e) : e \in FlushErrors}

\* One flush_sequentially call: its arguments (block, sender, seq: the sequence
\* its job flushes up to), whether it stalled, what it returned (ret: "Ok" or
\* the message of BackgroundFlushFailed), and its task: the step the task is
\* at (pc), the job's result (res), and what the task has done so far.
NotSet == [kind |-> "none", err_msg |-> ""]
NoJob == [pc |-> "none", res |-> "none", block |-> FALSE, sender |-> FALSE,
          ret |-> "none", seq |-> 0, stalled |-> FALSE, set_to |-> NotSet,
          notified |-> FALSE, cont_ran |-> FALSE, reply |-> "none"]

\* The operation of a thread: its kind, its request (ver, pre, opt), its
\* flush_sequentially call (job), its result, and the table as it was when the
\* request was validated (cur0, opt0, dropped0, wal0, man0).
NoManifest == [schema_version |-> 0, options |-> "none", dropped |-> FALSE]
IdleOp == [kind |-> "none", job |-> 0, ver |-> 0, pre |-> 0,
           opt |-> "none", cur0 |-> 0, opt0 |-> "none", dropped0 |-> FALSE,
           wal0 |-> 0, man0 |-> NoManifest, result |-> "none"]

EngineInit ==
    /\ flush_state = Ready
    /\ state_lock = 0
    /\ notifier_version = 0
    /\ watcher_seen = 0
    /\ serial_exec = 0
    /\ pc = [p \in Procs |-> "idle"]
    /\ op = [p \in Procs |-> IdleOp]
    /\ ops_started = 0
    /\ next_job = 0
    /\ jobs = [j \in Jobs |-> NoJob]
    /\ started = <<>>
    /\ schema_version = 1
    /\ options = "o1"
    /\ is_dropped = FALSE
    /\ last_sequence = 0
    /\ last_flushed = 0
    /\ mem_last = 0
    /\ wal = <<>>
    /\ manifest = [schema_version |-> 1, options |-> "o1", dropped |-> FALSE]
    /\ alter_errs = {}
    /\ crashes = 0

\* ------------------------------------------------- client threads, executor

\* A lock that never makes its caller wait.
LockFree_Always(holder) == TRUE

\* tokio Mutex `serial_exec`: lock() completes only while nobody holds it.
LockFree(holder) == holder = 0

FirstStep(kind) ==
    CASE kind = "write" -> "w_wal"
      [] kind = "flush" -> "mf_schedule"
      [] kind = "alter_schema" -> "as_validate"
      [] kind = "alter_options" -> "ao_validate"
      [] kind = "drop" -> "drop"

\* A client calls one of the table's mutating operations, which starts with
\* `table_data.serial_exec.lock().await`: the call proceeds once the guard is
\* obtained.
Lock(p, kind) ==
    /\ pc[p] = "idle"
    /\ UNCHANGED extVars
    /\ ops_started < MaxOps
    /\ LockFree(serial_exec)
    /\ serial_exec' = p
    /\ ops_started' = ops_started + 1
    /\ op' = [op EXCEPT ![p] = [IdleOp EXCEPT !.kind = kind]]
    /\ pc' = [pc EXCEPT ![p] = FirstStep(kind)]
    /\ UNCHANGED <<schedVars, next_job, jobs, started, tableVars, storeVars,
                   alter_errs, crashes>>

IsAlter(kind) == kind \in {"alter_schema", "alter_options"}

\* The operation returns: the guard of the serial executor is dropped.
Unlock(p) ==
    /\ pc[p] = "unlock"
    /\ UNCHANGED extVars
    /\ serial_exec' = 0
    /\ alter_errs' = IF IsAlter(op[p].kind) /\ op[p].result # "Ok"
                        /\ Len(wal) > op[p].wal0
                     THEN alter_errs \cup {Len(wal)} ELSE alter_errs
    /\ op' = [op EXCEPT ![p] = IdleOp]
    /\ pc' = [pc EXCEPT ![p] = "idle"]
    /\ UNCHANGED <<schedVars, ops_started, next_job, jobs, started, tableVars,
                   storeVars, crashes>>

\* ---------------------------------------- TableFlushScheduler::flush_sequentially

\* Entry of flush_sequentially: the caller passes its flush job, the flags and
\* the optional reply sender.  The job flushes what was written so far.
CallFlush(p, block, sender) ==
    /\ next_job' = next_job + 1
    /\ op' = [op EXCEPT ![p].job = next_job + 1]
    /\ jobs' = [jobs EXCEPT ![next_job + 1] =
                    [NoJob EXCEPT !.block = block, !.sender = sender,
                                  !.seq = last_sequence]]
    /\ pc' = [pc EXCEPT ![p] = "fs_check"]

\* A loop that does not wait while a flush is running.
CheckOutcome_NoWait(kind) ==
    CASE kind = "Ready" -> "proceed"
      [] kind = "Flushing" -> "proceed"
      [] kind = "Failed" -> "fail"

\* A loop that schedules again after a failed flush.
CheckOutcome_RetryAfterFailure(kind) ==
    CASE kind = "Ready" -> "proceed"
      [] kind = "Flushing" -> "wait"
      [] kind = "Failed" -> "proceed"

\* The match on the flush state inside the loop of flush_sequentially.
CheckOutcome(kind) ==
    CASE kind = "Ready" -> "proceed"
      [] kind = "Flushing" -> "wait"
      [] kind = "Failed" -> "fail"

\* A block that keeps its guard while the caller waits for the notifier.
GuardAfterBlock_HeldWhileWaiting(holder, out) ==
    IF out = "wait" THEN holder ELSE 0

\* The MutexGuard of `schedule_sync.state` taken inside the block of the loop
\* is dropped when the block is left, by `break`, by `return` or at its end.
GuardAfterBlock(holder, out) == 0

\* One pass of the loop's critical section: `state.lock()` succeeds only
\* while nobody holds the mutex.
FsCheck(p) ==
    /\ pc[p] = "fs_check"
    /\ UNCHANGED extVars
    /\ state_lock = 0
    /\ state_lock' = GuardAfterBlock(p, CheckOutcome(flush_state.kind))
    /\ LET j == op[p].job
           out == CheckOutcome(flush_state.kind)
       IN  CASE out = "proceed" ->
                  /\ flush_state' = Flushing
                  /\ pc' = [pc EXCEPT ![p] = "fs_spawn"]
                  /\ UNCHANGED jobs
             [] out = "wait" ->
                  /\ jobs' = [jobs EXCEPT ![j].stalled = TRUE]
                  /\ pc' = [pc EXCEPT ![p] = "fs_wait"]
                  /\ UNCHANGED flush_state
             [] out = "fail" ->
                  /\ jobs' = [jobs EXCEPT ![j].ret = flush_state.err_msg]
                  /\ pc' = [pc EXCEPT ![p] = "fs_ret"]
                  /\ UNCHANGED flush_state
    /\ UNCHANGED <<notifier_version, watcher_seen, serial_exec, op, ops_started,
                   next_job, started, tableVars, storeVars, alter_errs, crashes>>

\* watch::Receiver::changed() completes once the channel's version differs
\* from the version this receiver has seen, and marks it seen.
ChangedReady(seen, version) == seen # version

FsChanged(p) ==
    /\ pc[p] = "fs_wait"
    /\ UNCHANGED extVars
    /\ ChangedReady(watcher_seen, notifier_version)
    /\ watcher_seen' = notifier_version
    /\ pc' = [pc EXCEPT ![p] = "fs_check"]
    /\ UNCHANGED <<flush_state, state_lock, notifier_version, serial_exec, op,
                   ops_started, next_job, jobs, started, tableVars, storeVars,
                   alter_errs, crashes>>

\* A scheduler that always spawns the task.
AwaitInline_Never(block) == FALSE

\* `if block_on_write_thread { task.await } else { runtime.spawn(task) }`
AwaitInline(block) == block

FsSpawn(p) ==
    /\ pc[p] = "fs_spawn"
    /\ UNCHANGED extVars
    /\ LET j == op[p].job
       IN  IF AwaitInline(jobs[j].block)
           THEN /\ jobs' = [jobs EXCEPT ![j].pc = "spawned"]
                /\ pc' = [pc EXCEPT ![p] = "fs_block"]
           ELSE /\ jobs' = [jobs EXCEPT ![j].pc = "spawned", ![j].ret = "Ok"]
                /\ pc' = [pc EXCEPT ![p] = "fs_ret"]
    /\ UNCHANGED <<schedVars, serial_exec, op, ops_started, next_job, started,
                   tableVars, storeVars, alter_errs, crashes>>

\* `task.await` completes, flush_sequentially returns Ok(()).
FsBlockDone(p) ==
    /\ pc[p] = "fs_block"
    /\ UNCHANGED extVars
    /\ jobs[op[p].job].pc = "done"
    /\ jobs' = [jobs EXCEPT ![op[p].job].ret = "Ok"]
    /\ pc' = [pc EXCEPT ![p] = "fs_ret"]
    /\ UNCHANGED <<schedVars, serial_exec, op, ops_started, next_job, started,
                   tableVars, storeVars, alter_errs, crashes>>

\* ------------------------------------------------------------ the flush task

\* A task that runs the continuation and replies before on_flush_finished.
TaskAfter_ReplyFirst(step, res) ==
    CASE step = "flush_job" -> IF res = "ok" THEN "continuation" ELSE "send_result"
      [] step = "continuation" -> "send_result"
      [] step = "send_result" -> "set_state"
      [] step = "set_state" -> "notify"
      [] step = "notify" -> "done"

\* A task that runs the continuation whatever the job returned.
TaskAfter_AlwaysContinue(step, res) ==
    CASE step = "flush_job" -> "set_state"
      [] step = "set_state" -> "notify"
      [] step = "notify" -> "continuation"
      [] step = "continuation" -> "send_result"
      [] step = "send_result" -> "done"

\* A task that replies only when the job succeeded.
TaskAfter_ReplyOnSuccess(step, res) ==
    CASE step = "flush_job" -> "set_state"
      [] step = "set_state" -> "notify"
      [] step = "notify" -> IF res = "ok" THEN "continuation" ELSE "done"
      [] step = "continuation" -> "send_result"
      [] step = "send_result" -> "done"

\* The order of the statements of the task built by flush_sequentially.
TaskAfter(step, res) ==
    CASE step = "flush_job" -> "set_state"
      [] step = "set_state" -> "notify"
      [] step = "notify" -> IF res = "ok" THEN "continuation" ELSE "send_result"
      [] step = "continuation" -> "send_result"
      [] step = "send_result" -> "done"

\* The step the task is at after `step`: send_flush_result with no sender does
\* nothing and takes no step of its own.
TaskResume(j, step, res) ==
    LET nxt == TaskAfter(step, res)
    IN  IF nxt = "send_result" /\ ~jobs[j].sender
        THEN TaskAfter(nxt, res) ELSE nxt

\* The task is polled for the first time: the flush job begins.
JobStart(j) ==
    /\ jobs[j].pc = "spawned"
    /\ UNCHANGED extVars
    /\ jobs' = [jobs EXCEPT ![j].pc = "flush_job"]
    /\ started' = Append(started, j)
    /\ UNCHANGED <<schedVars, serial_exec, pc, op, ops_started, next_job,
                   tableVars, storeVars, alter_errs, crashes>>

\* `flush_job.await` returns: Ok after the memtables frozen at schedule time
\* are in an SST, or an error.
JobFinish(j, res) ==
    /\ jobs[j].pc = "flush_job"
    /\ UNCHANGED extVars
    /\ jobs' = [jobs EXCEPT ![j].pc = TaskResume(j, "flush_job", res),
                            ![j].res = res]
    /\ last_flushed' = IF res = "ok" /\ jobs[j].seq > last_flushed
                       THEN jobs[j].seq ELSE last_flushed
    /\ UNCHANGED <<schedVars, serial_exec, pc, op, ops_started, next_job,
                   started, schema_version, options, is_dropped, last_sequence,
                   mem_last, storeVars, alter_errs, crashes>>

\* An on_flush_finished that forgets the error.
StateFromResult_AlwaysReady(res) == Ready

\* on_flush_finished, first block: the state set from the job's result.
StateFromResult(res) ==
    IF res = "ok" THEN Ready ELSE Failed(ErrToString(res))

OnFlushFinishedSetState(j) ==
    /\ jobs[j].pc = "set_state"
    /\ UNCHANGED extVars
    /\ state_lock = 0
    /\ state_lock' = 0
    /\ flush_state' = StateFromResult(jobs[j].res)
    /\ jobs' = [jobs EXCEPT ![j].pc = TaskResume(j, "set_state", jobs[j].res),
                            ![j].set_to = StateFromResult(jobs[j].res)]
    /\ UNCHANGED <<notifier_version, watcher_seen, serial_exec, pc, op,
                   ops_started, next_job, started, tableVars, storeVars,
                   alter_errs, crashes>>

\* An on_flush_finished that does not notify.
NotifierSend_Dropped(version) == version

\* `schedule_sync.notifier.send(())`: a new version of the watch channel.
NotifierSend(version) == version + 1

\* The value of serial_exec once the TableOpSerialExecutor, and the
\* TableFlushScheduler in it, is dropped: an id no thread has.
NoExecutor == NumProcs + 1

\* watch::Sender::send returns an error when the channel has no Receiver; the
\* only Receiver is `state_watcher`, a field of the scheduler.
HasReceiver(executor) == executor # NoExecutor

\* A task that ends when the notification fails.
AfterSend_StopOnError(sent, nxt) == IF sent THEN nxt ELSE "done"

\* `if schedule_sync.notifier.send(()).is_err() { error!(..) }`: the error is
\* logged, on_flush_finished returns and the task goes on either way.
AfterSend(sent, nxt) == nxt

OnFlushFinishedNotify(j) ==
    /\ jobs[j].pc = "notify"
    /\ UNCHANGED extVars
    /\ notifier_version' = IF HasReceiver(serial_exec)
                           THEN NotifierSend(notifier_version)
                           ELSE notifier_version
    /\ jobs' = [jobs EXCEPT
                    ![j].pc = AfterSend(HasReceiver(serial_exec),
                                        TaskResume(j, "notify", jobs[j].res)),
                    ![j].notified = HasReceiver(serial_exec)]
    /\ UNCHANGED <<flush_state, state_lock, watcher_seen, serial_exec, pc, op,
                   ops_started, next_job, started, tableVars, storeVars,
                   alter_errs, crashes>>

\* `on_flush_success.await`
Continuation(j) ==
    /\ jobs[j].pc = "continuation"
    /\ UNCHANGED extVars
    /\ jobs' = [jobs EXCEPT ![j].pc = TaskResume(j, "continuation", jobs[j].res),
                            ![j].cont_ran = TRUE]
    /\ UNCHANGED <<schedVars, serial_exec, pc, op, ops_started, next_job,
                   started, tableVars, storeVars, alter_errs, crashes>>

\* send_flush_result
SendFlushResult(j) ==
    /\ jobs[j].pc = "send_result"
    /\ UNCHANGED extVars
    /\ jobs' = [jobs EXCEPT ![j].pc = TaskResume(j, "send_result", jobs[j].res),
                            ![j].reply = jobs[j].res]
    /\ UNCHANGED <<schedVars, serial_exec, pc, op, ops_started, next_job,
                   started, tableVars, storeVars, alter_errs, crashes>>

\* Return from an operation with `result`; the guard is dropped next.
Return(p, result) ==
    /\ op' = [op EXCEPT ![p].result = result]
    /\ pc' = [pc EXCEPT ![p] = "unlock"]

\* ------------------------------------------------ Instance::manual_flush_table

\* Flusher::schedule_flush: a flush that does not block the write thread; the
\* reply sender exists when the request is synchronous.
MfSchedule(p, sync) ==
    /\ pc[p] = "mf_schedule"
    /\ UNCHANGED extVars
    /\ CallFlush(p, FALSE, sync)
    /\ UNCHANGED <<schedVars, serial_exec, ops_started, started, tableVars,
                   storeVars, alter_errs, crashes>>

\* `.context(ManualFlush)?` on the result of schedule_flush.
MfAfterSchedule(p) ==
    /\ pc[p] = "fs_ret"
    /\ UNCHANGED extVars
    /\ op[p].kind = "flush"
    /\ LET j == op[p].job
       IN  IF jobs[j].ret # "Ok"
           THEN Return(p, "ManualFlush")
           ELSE IF jobs[j].sender
                THEN /\ pc' = [pc EXCEPT ![p] = "mf_recv"]
                     /\ UNCHANGED op
                ELSE Return(p, "Ok")
    /\ UNCHANGED <<schedVars, serial_exec, ops_started, next_job, jobs, started,
                   tableVars, storeVars, alter_errs, crashes>>

\* `rx.await`: the result sent by the flush task.
MfRecv(p) ==
    /\ pc[p] = "mf_recv"
    /\ UNCHANGED extVars
    /\ jobs[op[p].job].reply # "none"
    /\ Return(p, IF jobs[op[p].job].reply = "ok" THEN "Ok" ELSE "ManualFlush")
    /\ UNCHANGED <<schedVars, serial_exec, ops_started, next_job, jobs, started,
                   tableVars, storeVars, alter_errs, crashes>>

\* ------------------------------------------------------------- alter schema

\* A validation without the check of pre_schema_version.
ValidateBeforeAlter_NoPreCheck(dropped, cur, ver, pre) ==
    IF dropped THEN "AlterDroppedTable"
    ELSE IF ~(cur < ver) THEN "InvalidSchemaVersion"
    ELSE "Ok"

\* A validation without the check of the new schema's version.
ValidateBeforeAlter_NoVersionCheck(dropped, cur, ver, pre) ==
    IF dropped THEN "AlterDroppedTable"
    ELSE IF ~(cur = pre) THEN "InvalidPreVersion"
    ELSE "Ok"

\* Instance::validate_before_alter: the three `ensure!`s in their order.
ValidateBeforeAlter(dropped, cur, ver, pre) ==
    IF dropped THEN "AlterDroppedTable"
    ELSE IF ~(cur < ver) THEN "InvalidSchemaVersion"
    ELSE IF ~(cur = pre) THEN "InvalidPreVersion"
    ELSE "Ok"

\* process_alter_schema_command up to the `?` after validate_before_alter;
\* the request carries the new schema's version and pre_schema_version.
AsValidate(p, ver, pre) ==
    /\ pc[p] = "as_validate"
    /\ UNCHANGED extVars
    /\ LET v == ValidateBeforeAlter(is_dropped, schema_version, ver, pre)
           o == [op[p] EXCEPT !.ver = ver, !.pre = pre,
                              !.cur0 = schema_version, !.opt0 = options,
                              !.dropped0 = is_dropped, !.wal0 = Len(wal),
                              !.man0 = manifest]
       IN  IF v = "Ok"
           THEN /\ op' = [op EXCEPT ![p] = o]
                /\ pc' = [pc EXCEPT ![p] = "as_flush"]
           ELSE /\ op' = [op EXCEPT ![p] = [o EXCEPT !.result = v]]
                /\ pc' = [pc EXCEPT ![p] = "unlock"]
    /\ UNCHANGED <<schedVars, serial_exec, ops_started, next_job, jobs, started,
                   tableVars, storeVars, alter_errs, crashes>>

\* flush_table_in_worker with block_on_write_thread: true and no reply sender.
AsFlush(p) ==
    /\ pc[p] = "as_flush"
    /\ UNCHANGED extVars
    /\ CallFlush(p, TRUE, FALSE)
    /\ UNCHANGED <<schedVars, serial_exec, ops_started, started, tableVars,
                   storeVars, alter_errs, crashes>>

\* `.context(FlushTable)?`
AsAfterFlush(p) ==
    /\ pc[p] = "fs_ret"
    /\ UNCHANGED extVars
    /\ op[p].kind = "alter_schema"
    /\ IF jobs[op[p].job].ret = "Ok"
       THEN /\ pc' = [pc EXCEPT ![p] = "as_wal"]
            /\ UNCHANGED op
       ELSE Return(p, "FlushTable")
    /\ UNCHANGED <<schedVars, serial_exec, ops_started, next_job, jobs, started,
                   tableVars, storeVars, alter_errs, crashes>>

WalEntry(kind, ver, opt) == [kind |-> kind, ver |-> ver, opt |-> opt]

\* A WAL step that already installs the new schema in memory.
AsWriteWal_SetsSchema(p, ok) ==
    /\ pc[p] = "as_wal"
    /\ UNCHANGED extVars
    /\ IF ok
       THEN /\ wal' = Append(wal, WalEntry("AlterSchema", op[p].ver, "none"))
            /\ schema_version' = op[p].ver
            /\ pc' = [pc EXCEPT ![p] = "as_manifest"]
            /\ UNCHANGED op
       ELSE /\ Return(p, "WriteWal")
            /\ UNCHANGED <<wal, schema_version>>
    /\ UNCHANGED <<schedVars, serial_exec, ops_started, next_job, jobs, started,
                   options, is_dropped, last_sequence, last_flushed, mem_last,
                   manifest, alter_errs, crashes>>

\* wal_manager.write of the AlterSchema payload: appended, or an error.
AsWriteWal(p, ok) ==
    /\ pc[p] = "as_wal"
    /\ UNCHANGED extVars
    /\ IF ok
       THEN /\ wal' = Append(wal, WalEntry("AlterSchema", op[p].ver, "none"))
            /\ pc' = [pc EXCEPT ![p] = "as_manifest"]
            /\ UNCHANGED op
       ELSE /\ Return(p, "WriteWal")
            /\ UNCHANGED wal
    /\ UNCHANGED <<schedVars, serial_exec, ops_started, next_job, jobs, started,
                   tableVars, manifest, alter_errs, crashes>>

\* manifest.store_update(MetaUpdate::AlterSchema): stored, or an error.
AsStoreUpdate(p, ok) ==
    /\ pc[p] = "as_manifest"
    /\ UNCHANGED extVars
    /\ IF ok
       THEN /\ manifest' = [manifest EXCEPT !.schema_version = op[p].ver]
            /\ pc' = [pc EXCEPT ![p] = "as_set"]
            /\ UNCHANGED op
       ELSE /\ Return(p, "WriteManifest")
            /\ UNCHANGED manifest
    /\ UNCHANGED <<schedVars, serial_exec, ops_started, next_job, jobs, started,
                   tableVars, wal, alter_errs, crashes>>

\* table_data.set_schema(request.schema); Ok(())
AsSetSchema(p) ==
    /\ pc[p] = "as_set"
    /\ UNCHANGED extVars
    /\ schema_version' = op[p].ver
    /\ Return(p, "Ok")
    /\ UNCHANGED <<schedVars, serial_exec, ops_started, next_job, jobs, started,
                   options, is_dropped, last_sequence, last_flushed, mem_last,
                   storeVars, alter_errs, crashes>>

\* ------------------------------------------------------------ alter options

\* table_options::merge_table_options_for_alter followed by sanitize: the new
\* options, or "InvalidOptions" for options that do not parse.
MergeTableOptions(given, current) ==
    IF given = "bad" THEN "InvalidOptions" ELSE given

\* process_alter_options_command up to the merge of the options.
AoValidate(p, given) ==
    /\ pc[p] = "ao_validate"
    /\ UNCHANGED extVars
    /\ LET v == IF is_dropped THEN "AlterDroppedTable"
                ELSE MergeTableOptions(given, options)
           o == [op[p] EXCEPT !.cur0 = schema_version, !.opt0 = options,
                              !.dropped0 = is_dropped, !.wal0 = Len(wal),
                              !.man0 = manifest]
       IN  IF v \in {"AlterDroppedTable", "InvalidOptions"}
           THEN /\ op' = [op EXCEPT ![p] = [o EXCEPT !.result = v]]
                /\ pc' = [pc EXCEPT ![p] = "unlock"]
           ELSE /\ op' = [op EXCEPT ![p] = [o EXCEPT !.opt = v]]
                /\ pc' = [pc EXCEPT ![p] = "ao_wal"]
    /\ UNCHANGED <<schedVars, serial_exec, ops_started, next_job, jobs, started,
                   tableVars, storeVars, alter_errs, crashes>>

\* wal_manager.write of the AlterOption payload.
AoWriteWal(p, ok) ==
    /\ pc[p] = "ao_wal"
    /\ UNCHANGED extVars
    /\ IF ok
       THEN /\ wal' = Append(wal, WalEntry("AlterOption", 0, op[p].opt))
            /\ pc' = [pc EXCEPT ![p] = "ao_manifest"]
            /\ UNCHANGED op
       ELSE /\ Return(p, "WriteWal")
            /\ UNCHANGED wal
    /\ UNCHANGED <<schedVars, serial_exec, ops_started, next_job, jobs, started,
                   tableVars, manifest, alter_errs, crashes>>

\* manifest.store_update(MetaUpdate::AlterOptions)
AoStoreUpdate(p, ok) ==
    /\ pc[p] = "ao_manifest"
    /\ UNCHANGED extVars
    /\ IF ok
       THEN /\ manifest' = [manifest EXCEPT !.options = op[p].opt]
            /\ pc' = [pc EXCEPT ![p] = "ao_set"]
            /\ UNCHANGED op
       ELSE /\ Return(p, "WriteManifest")
            /\ UNCHANGED manifest
    /\ UNCHANGED <<schedVars, serial_exec, ops_started, next_job, jobs, started,
                   tableVars, wal, alter_errs, crashes>>

\* table_data.set_table_options(worker_local, table_opts); Ok(())
AoSetOptions(p) ==
    /\ pc[p] = "ao_set"
    /\ UNCHANGED extVars
    /\ options' = op[p].opt
    /\ Return(p, "Ok")
    /\ UNCHANGED <<schedVars, serial_exec, ops_started, next_job, jobs, started,
                   schema_version, is_dropped, last_sequence, last_flushed,
                   mem_last, storeVars, alter_errs, crashes>>

\* ------------------------------------------------------------ write and drop

\* Write path, first half: the rows are appended to the WAL.
WriteWal(p, ok) ==
    /\ pc[p] = "w_wal"
    /\ UNCHANGED extVars
    /\ IF ok
       THEN /\ wal' = Append(wal, WalEntry("Data", 0, "none"))
            /\ pc' = [pc EXCEPT ![p] = "w_mem"]
            /\ UNCHANGED op
       ELSE /\ Return(p, "WriteWal")
            /\ UNCHANGED wal
    /\ UNCHANGED <<schedVars, serial_exec, ops_started, next_job, jobs, started,
                   tableVars, manifest, alter_errs, crashes>>

\* Write path, second half: memtable insert, then the sequence is advanced.
WriteMemtable(p) ==
    /\ pc[p] = "w_mem"
    /\ UNCHANGED extVars
    /\ mem_last' = Len(wal)
    /\ last_sequence' = Len(wal)
    /\ Return(p, "Ok")
    /\ UNCHANGED <<schedVars, serial_exec, ops_started, next_job, jobs, started,
                   schema_version, options, is_dropped, last_flushed, storeVars,
                   alter_errs, crashes>>

\* Drop: the DropTable meta-edit is stored and the table is marked dropped.
DropTable(p) ==
    /\ pc[p] = "drop"
    /\ UNCHANGED extVars
    /\ manifest' = [manifest EXCEPT !.dropped = TRUE]
    /\ is_dropped' = TRUE
    /\ Return(p, "Ok")
    /\ UNCHANGED <<schedVars, serial_exec, ops_started, next_job, jobs, started,
                   schema_version, options, last_sequence, last_flushed,
                   mem_last, wal, alter_errs, crashes>>

\* ------------------------------------------------- cancellation of a caller

\* The awaits of the task: `task.await` before its first poll,
\* `flush_job.await` and `on_flush_success.await`; on_flush_finished and
\* send_flush_result have none.
TaskAwaits == {"spawned", "flush_job", "continuation"}

\* The future of a caller is dropped while it is suspended in
\* `state_watcher.changed().await`, in `task.await` or in `rx.await`: the
\* guard of the serial executor is dropped with it, and so is the task when
\* it is a local of that future (`task.await`); a task given to
\* `runtime.spawn` belongs to the runtime and goes on.
DropCaller(p) ==
    /\ pc[p] \in {"fs_wait", "fs_block", "mf_recv"}
    /\ UNCHANGED extVars
    /\ LET j == op[p].job
       IN  IF pc[p] = "fs_block" /\ AwaitInline(jobs[j].block)
           THEN /\ jobs[j].pc \in TaskAwaits \cup {"done"}
                /\ jobs' = IF jobs[j].pc \in TaskAwaits
                           THEN [jobs EXCEPT ![j].pc = "dropped"] ELSE jobs
           ELSE UNCHANGED jobs
    /\ serial_exec' = 0
    /\ op' = [op EXCEPT ![p] = IdleOp]
    /\ pc' = [pc EXCEPT ![p] = "idle"]
    /\ UNCHANGED <<schedVars, ops_started, next_job, started, tableVars,
                   storeVars, alter_errs, crashes>>

\* The table is closed and its TableData dropped while no operation holds the
\* serial executor: the scheduler and its `state_watcher` are gone, no
\* operation can start any more; a spawned task owns a clone of schedule_sync
\* and goes on.
DropScheduler ==
    /\ serial_exec = 0
    /\ UNCHANGED extVars
    /\ serial_exec' = NoExecutor
    /\ UNCHANGED <<schedVars, pc, op, ops_started, next_job, jobs, started,
                   tableVars, storeVars, alter_errs, crashes>>

\* ------------------------------------------------------- crash and re-open

\* WAL replay on open: the entries after `from` are applied in order to the
\* table data rebuilt from the manifest; AlterSchema and AlterOption entries
\* are re-applied.
RECURSIVE ReplaySchema(_, _)
ReplaySchema(from, ver) ==
    IF from >= Len(wal) THEN ver
    ELSE ReplaySchema(from + 1, IF wal[from + 1].kind = "AlterSchema"
                                THEN wal[from + 1].ver ELSE ver)

RECURSIVE ReplayOptions(_, _)
ReplayOptions(from, opt) ==
    IF from >= Len(wal) THEN opt
    ELSE ReplayOptions(from + 1, IF wal[from + 1].kind = "AlterOption"
                                 THEN wal[from + 1].opt ELSE opt)

RECURSIVE LastDataSeq(_)
LastDataSeq(n) ==
    IF n = 0 THEN 0
    ELSE IF wal[n].kind = "Data" THEN n ELSE LastDataSeq(n - 1)

\* The process dies and the table is opened again: every thread and task is
\* gone, the scheduler is new, the table data comes from the manifest and the
\* WAL tail.
CrashAndRecover ==
    /\ crashes < MaxCrashes
    /\ UNCHANGED extVars
    /\ crashes' = crashes + 1
    /\ flush_state' = Ready
    /\ state_lock' = 0
    /\ notifier_version' = 0
    /\ watcher_seen' = 0
    /\ serial_exec' = 0
    /\ pc' = [p \in Procs |-> "idle"]
    /\ op' = [p \in Procs |-> IdleOp]
    /\ jobs' = [j \in Jobs |-> IF jobs[j].pc \in {"none", "done"} THEN jobs[j]
                               ELSE [jobs[j] EXCEPT !.pc = "dead"]]
    /\ schema_version' = ReplaySchema(last_flushed, manifest.schema_version)
    /\ options' = ReplayOptions(last_flushed, manifest.options)
    /\ is_dropped' = manifest.dropped
    /\ last_sequence' = LastDataSeq(Len(wal))
    /\ mem_last' = LastDataSeq(Len(wal))
    /\ UNCHANGED <<ops_started, next_job, started, last_flushed, storeVars,
                   alter_errs>>

\* ----------------------------------------- WAL region on a message queue

Writers == 1..NumWriters
TableIds == 1..NumTables

\* Option<Offset>::None of TableMetaData.safe_delete_offset.
NoOffset == -1

\* The sequence number the first write to a table starts from: a first batch
\* of n entries returns n - 1 (test_read_write).
InitNextSequenceNum == 0

InitTableMeta ==
    [next_sequence_num |-> InitNextSequenceNum, latest_marked_deleted |-> 0,
     current_high_watermark |-> 0, safe_delete_offset |-> NoOffset]

IdleWriter ==
    [pc |-> "idle", id |-> 0, table_id |-> 0, len |-> 0, first_sequence |-> 0,
     next_sequence_num |-> 0, first_offset |-> 0]

NoScan ==
    [pc |-> "none", inclusive_start |-> 0, terminate_offset |-> 0, pos |-> 0,
     is_terminated |-> FALSE, out |-> <<>>, live |-> {}]

Markers == 1..NumMarkers

\* A RegionMetaSnapshot: the meta data of every table of the region; `no`
\* numbers the snapshots in the order make_meta_snapshot produced them.
Snapshot(no, meta) == [no |-> no, meta |-> meta]

IdleMarker == [pc |-> "idle", snapshot |-> Snapshot(0, <<>>)]

\* The meta topic: the offset of its earliest record and the records from
\* there to the high watermark.
EmptyTopic == [earliest |-> 0, records |-> <<>>]

RegionInit ==
    /\ region_meta = [t \in TableIds |-> InitTableMeta]
    /\ log_topic = <<>>
    /\ writers = [w \in Writers |-> IdleWriter]
    /\ write_results = <<>>
    /\ scan = NoScan
    /\ markers = [m \in Markers |-> IdleMarker]
    /\ meta_topic = EmptyTopic
    /\ mark_hist = [snapshot |-> Snapshot(0, <<>>), marker |-> 0,
                    result |-> "none"]

\* to_message(key, payload) for entry number idx of the batch of write id: the
\* key carries the table and the sequence number, the payload is the entry's.
Message(table_id, sequence_num, id, idx) ==
    [table_id |-> table_id, sequence_num |-> sequence_num,
     payload |-> <<id, idx>>]

\* What a call reports when it returns; sequence is the value inside Ok.
WriteResult(w, result, sequence) ==
    [id |-> w.id, table_id |-> w.table_id, len |-> w.len,
     first_sequence |-> w.first_sequence, result |-> result,
     sequence |-> sequence]

\* Region::write holds the read half of `inner` for the whole call, scan_region
\* and mark_delete_to take the write half: they run while no write is inside.
NoWriteInside == \A w \in Writers : writers[w].pc = "idle"

\* A mark_delete_to that drops the guard of `inner` at once.
HoldsInner_UntilSnapshot(step) == FALSE

\* Region::mark_delete_to keeps the write half of `inner` until the tuple
\* (snapshot, synchronizer guard) is built: while it waits for the lock of
\* the snapshot synchronizer it still holds `inner`.
HoldsInner(step) == step = "lock_synchronizer"

NoMarkInside == \A m \in Markers : ~HoldsInner(markers[m].pc)

WritesStarted ==
    Len(write_results) + Cardinality({w \in Writers : writers[w].pc # "idle"})

\* region_meta.prepare_for_table_write(table_id): the table's next sequence
\* number. It is given the table only, and returns a number.
PrepareForTableWrite(table_id) == region_meta[table_id].next_sequence_num

\* RegionInner::write up to the produce call: the batch must not be empty, the
\* entries are numbered from the table's next sequence number. Callers are
\* alike: a new call takes the first free place in `writers`.
RegionWrite(w, table_id, len) ==
    /\ writers[w].pc = "idle"
    /\ NoMarkInside
    /\ \A v \in 1..(w - 1) : writers[v].pc # "idle"
    /\ WritesStarted < MaxWrites
    /\ LET id == WritesStarted + 1
           first == PrepareForTableWrite(table_id)
           call == [pc |-> "produce", id |-> id, table_id |-> table_id,
                    len |-> len, first_sequence |-> first,
                    next_sequence_num |-> first + len, first_offset |-> 0]
       IN  IF len = 0
           THEN /\ write_results' =
                       Append(write_results,
                              WriteResult(call, "WriteNoCause", 0))
                /\ UNCHANGED writers
           ELSE /\ writers' = [writers EXCEPT ![w] = call]
                /\ UNCHANGED write_results
    /\ UNCHANGED <<region_meta, log_topic, scan, syncVars,
                   engineVars, namespaceVars, cleanerVars, pureVars>>

\* message_queue.produce(log_topic, messages): the batch is appended at the
\* end of the topic, or the call fails and nothing is appended.
Produce(w, ok) ==
    /\ writers[w].pc = "produce"
    /\ LET c == writers[w]
       IN  IF ok
           THEN /\ log_topic' = log_topic \o
                       [k \in 1..c.len |->
                           Message(c.table_id, c.first_sequence + k - 1,
                                   c.id, k)]
                /\ writers' = [writers EXCEPT ![w].pc = "update",
                                   ![w].first_offset = Len(log_topic)]
                /\ UNCHANGED write_results
           ELSE /\ write_results' =
                       Append(write_results,
                              WriteResult(c, "WriteWithCause", 0))
                /\ writers' = [writers EXCEPT ![w] = IdleWriter]
                /\ UNCHANGED log_topic
    /\ UNCHANGED <<region_meta, scan, syncVars,
                   engineVars, namespaceVars, cleanerVars, pureVars>>

\* A write that returns the sequence number after the last entry.
WriteReturn_Next(next_sequence_num) == next_sequence_num

\* Ok(next_sequence_num - 1)
WriteReturn(next_sequence_num) == next_sequence_num - 1

Max(a, b) == IF a >= b THEN a ELSE b

\* region_meta.update_after_table_write(table_id, OffsetRange(first, last)):
\* the table's counters move past the written range. The call returns a
\* Result, and its error is returned by the write.
UpdateAfterTableWrite(w, ok) ==
    /\ writers[w].pc = "update"
    /\ LET c == writers[w]
           m == region_meta[c.table_id]
           last_offset == c.first_offset + c.len - 1
       IN  IF ok
           THEN /\ region_meta' = [region_meta EXCEPT ![c.table_id] =
                       [m EXCEPT
                           !.next_sequence_num = m.next_sequence_num + c.len,
                           !.current_high_watermark =
                               Max(m.current_high_watermark, last_offset + 1),
                           !.safe_delete_offset =
                               IF m.safe_delete_offset = NoOffset
                               THEN c.first_offset
                               ELSE m.safe_delete_offset]]
                /\ write_results' =
                       Append(write_results,
                              WriteResult(c, "Ok",
                                          WriteReturn(c.next_sequence_num)))
           ELSE /\ write_results' =
                       Append(write_results,
                              WriteResult(c, "WriteWithCause", 0))
                /\ UNCHANGED region_meta
    /\ writers' = [writers EXCEPT ![w] = IdleWriter]
    /\ UNCHANGED <<log_topic, scan, syncVars,
                   engineVars, namespaceVars, cleanerVars, pureVars>>

\* Offsets of the messages of the table with a sequence number from
\* sequence_num on.
KeptOffsets(table_id, sequence_num) ==
    {i - 1 : i \in {k \in 1..Len(log_topic) :
                        /\ log_topic[k].table_id = table_id
                        /\ log_topic[k].sequence_num >= sequence_num}}

MinOf(S) == CHOOSE x \in S : \A y \in S : x <= y
MaxOf(S) == CHOOSE x \in S : \A y \in S : x >= y

\* Region::mark_delete_to(table_id, sequence_num): the entries of the table
\* with a sequence number in [0, sequence_num) are to be deleted; the table's
\* safe delete offset becomes the offset of the first entry that is kept.
MarkDeleteTo(table_id, sequence_num) ==
    /\ NoWriteInside
    /\ NoMarkInside
    /\ sequence_num > region_meta[table_id].latest_marked_deleted
    /\ sequence_num < region_meta[table_id].next_sequence_num
    /\ KeptOffsets(table_id, sequence_num) # {}
    /\ region_meta' = [region_meta EXCEPT
           ![table_id].latest_marked_deleted = sequence_num,
           ![table_id].safe_delete_offset =
               MinOf(KeptOffsets(table_id, sequence_num))]
    /\ UNCHANGED <<log_topic, writers, write_results, scan, engineVars,
                   namespaceVars, cleanerVars, pureVars>>

\* The same call when the sync of the snapshot is left out of account.
MarkDeleteToInMemory(table_id, sequence_num) ==
    MarkDeleteTo(table_id, sequence_num) /\ UNCHANGED syncVars

\* ------------------------------------- sync of the region's meta snapshot

\* Region::mark_delete_to, the block under `inner.write()`: the table is
\* marked, the snapshot of the region's meta is made from the marked state,
\* and the call goes on to lock the snapshot synchronizer. Callers are
\* alike: a new call takes the first free place in `markers`.
MarkAndSnapshot(m, table_id, sequence_num) ==
    /\ markers[m].pc = "idle"
    /\ \A v \in 1..(m - 1) : markers[v].pc # "idle"
    /\ mark_hist.snapshot.no < MaxMarks
    /\ MarkDeleteTo(table_id, sequence_num)
    /\ LET snapshot == Snapshot(mark_hist.snapshot.no + 1, region_meta')
       IN  /\ markers' = [markers EXCEPT
                   ![m] = [pc |-> "lock_synchronizer", snapshot |-> snapshot]]
           /\ mark_hist' = [snapshot |-> snapshot, marker |-> m,
                            result |-> "pending"]
    /\ UNCHANGED meta_topic

\* tokio Mutex `snapshot_synchronizer`: free while no call is syncing.
SynchronizerFree ==
    \A m \in Markers : markers[m].pc \notin {"produce", "delete_to"}

\* `self.snapshot_synchronizer.lock().await` completes: the tuple is built
\* and the block ends, which drops the guard of `inner`.
LockSynchronizer(m) ==
    /\ markers[m].pc = "lock_synchronizer"
    /\ SynchronizerFree
    /\ markers' = [markers EXCEPT ![m].pc = "produce"]
    /\ UNCHANGED <<region_meta, log_topic, writers, write_results, scan,
                   meta_topic, mark_hist, engineVars, namespaceVars,
                   cleanerVars, pureVars>>

\* The call of m returns `result`; the guard of the synchronizer is dropped.
MarkReturn(m, result) ==
    /\ markers' = [markers EXCEPT ![m] = IdleMarker]
    /\ mark_hist' = IF mark_hist.marker = m
                    THEN [mark_hist EXCEPT !.result = result] ELSE mark_hist

\* SnapshotSynchronizer::sync, first half: the snapshot is produced to the
\* meta topic as one record, or the produce fails and the sync with it.
SyncProduce(m, ok) ==
    /\ markers[m].pc = "produce"
    /\ IF ok
       THEN /\ meta_topic' = [meta_topic EXCEPT
                   !.records = Append(@, markers[m].snapshot)]
            /\ markers' = [markers EXCEPT ![m].pc = "delete_to"]
            /\ UNCHANGED mark_hist
       ELSE /\ MarkReturn(m, "SyncSnapshot")
            /\ UNCHANGED meta_topic
    /\ UNCHANGED <<region_meta, log_topic, writers, write_results, scan,
                   engineVars, namespaceVars, cleanerVars, pureVars>>

\* SnapshotSynchronizer::sync, second half: the records before the one just
\* produced are deleted from the meta topic, or the delete fails and the
\* sync with it.
SyncDeleteTo(m, ok) ==
    /\ markers[m].pc = "delete_to"
    /\ IF ok
       THEN /\ meta_topic' =
                   [earliest |-> meta_topic.earliest
                                    + Len(meta_topic.records) - 1,
                    records |-> <<meta_topic.records[Len(meta_topic.records)]>>]
            /\ MarkReturn(m, "Ok")
       ELSE /\ MarkReturn(m, "SyncSnapshot")
            /\ UNCHANGED meta_topic
    /\ UNCHANGED <<region_meta, log_topic, writers, write_results, scan,
                   engineVars, namespaceVars, cleanerVars, pureVars>>

\* The entries of one write that returned Ok.
EntriesOf(r) ==
    {Message(r.table_id, r.first_sequence + k - 1, r.id, k) : k \in 1..r.len}

\* The entries written by the writes that returned Ok and not marked deleted.
LiveEntries ==
    {e \in UNION {EntriesOf(write_results[i]) :
                     i \in {k \in 1..Len(write_results) :
                                write_results[k].result = "Ok"}} :
        e.sequence_num >= region_meta[e.table_id].latest_marked_deleted}

\* Region::scan_region: the range is computed from the region's snapshot, from
\* the smallest safe delete offset to the largest high watermark, and an
\* iterator over that range is created; no range, no iterator.
ScanRegion ==
    /\ scan.pc = "none"
    /\ NoWriteInside
    /\ NoMarkInside
    /\ LET safe == {region_meta[t].safe_delete_offset : t \in TableIds}
                       \ {NoOffset}
           high_watermark ==
               MaxOf({region_meta[t].current_high_watermark : t \in TableIds})
       IN  IF safe = {}
           THEN scan' = [NoScan EXCEPT !.pc = "done", !.live = LiveEntries]
           ELSE scan' = [NoScan EXCEPT
                            !.pc = IF MinOf(safe) < high_watermark
                                   THEN "iter" ELSE "panic",
                            !.inclusive_start = MinOf(safe),
                            !.pos = MinOf(safe),
                            !.terminate_offset = high_watermark,
                            !.live = LiveEntries]
    /\ UNCHANGED <<region_meta, log_topic, writers, write_results, syncVars,
                   engineVars, namespaceVars, cleanerVars, pureVars>>

\* MessageQueueLogIterator::next_log_entry: None once the iterator is
\* terminated; otherwise the next message of the topic, which terminates the
\* iterator when it is the last one before the terminate offset.
NextLogEntry ==
    /\ scan.pc = "iter"
    /\ IF scan.is_terminated
       THEN scan' = [scan EXCEPT !.pc = "done"]
       ELSE /\ scan.pos < Len(log_topic)
            /\ LET msg == log_topic[scan.pos + 1]
               IN  scan' = [scan EXCEPT
                       !.is_terminated = (scan.pos + 1 = scan.terminate_offset),
                       !.out = Append(scan.out, msg),
                       !.pos = scan.pos + 1]
    /\ UNCHANGED <<region_meta, log_topic, writers, write_results, syncVars,
                   engineVars, namespaceVars, cleanerVars, pureVars>>

\* RegionInner::range_scan(ctx, table_id, scan_range): a consumer of the log
\* topic that starts at scan_range.inclusive_start, wrapped in an iterator
\* whose terminate offset is scan_range.exclusive_end. scan_region takes a
\* range that it asserts not to be empty; scan_table takes [safe delete
\* offset, high watermark) of the table's meta data unchecked. The call
\* holds `inner.read()`, as a write does.
RangeScan(inclusive_start, exclusive_end) ==
    /\ scan.pc = "none"
    /\ NoMarkInside
    /\ inclusive_start <= exclusive_end
    /\ exclusive_end <= Len(log_topic)
    /\ scan' = [NoScan EXCEPT !.pc = "iter",
                              !.inclusive_start = inclusive_start,
                              !.pos = inclusive_start,
                              !.terminate_offset = exclusive_end,
                              !.live = LiveEntries]
    /\ UNCHANGED <<region_meta, log_topic, writers, write_results, syncVars,
                   engineVars, namespaceVars, cleanerVars, pureVars>>

\* ------------------------------------ table-kv WAL: the bucket monitor

\* Time is counted in bucket durations (BUCKET_DURATION_MS, one day); a bucket
\* is named by the day it starts.
Shards == 1..NumShards

\* NamespaceEntry.wal.ttl, in bucket durations (test_bucket_monitor_routine_ttl).
TtlDays == 1

\* NamespaceConfig.ttl and NamespaceEntry.wal.ttl: None, or Some(ttl) with the
\* ttl of TtlDays.
TtlConfigs == {"none", "ttl"}

\* BucketEntry::new_permanent: the bucket from Timestamp::ZERO to
\* Timestamp::MAX, which stands outside the days.
PermanentBucket == 0 - 2

\* No Namespace object, and no entry of the namespace in the meta table.
ClosedNamespace ==
    [state |-> "closed", entry |-> "absent", config |-> "none",
     bucket_set |-> "Timed", monitor_handle |-> FALSE,
     cleaner_handle |-> FALSE, monitor_ran |-> FALSE]

\* No read_log call. A call keeps the buckets it listed, the shard table of
\* its region in each of them, the buckets it has scanned and its result.
NoReader ==
    [pc |-> "none", buckets |-> {}, shard |-> 0, scanned |-> {},
     result |-> "none"]

\* The threads that open or create a region. A thread outside a call keeps
\* the region its last call got: `made` is the Region object it made itself,
\* `region` the one it was given, by number, 0 for none.
Openers == 1..NumOpeners
IdleOpener == [pc |-> "idle", region_id |-> 0, made |-> 0, region |-> 0]

\* No region in memory: no id has a Region object.
NoRegions == [r \in 1..NumKvRegions |-> 0]

\* The threads that call insert_notifier, and the keys of the requests.
Requesters == 1..NumRequesters
RequestKeys == 1..NumRequestKeys
IdleRequester == [pc |-> "idle", key |-> 0, notifier |-> 0]

\* RequestNotifiers::default(): no key is in the map. The notifiers of a key
\* are a Vec that is never empty, so the empty one stands for no key.
NoNotifiers == [k \in RequestKeys |-> <<>>]

\* No call has taken effect: `events` are the calls in the order in which
\* they took effect, `issued` counts the notifiers passed in.
NoDedupHist == [events |-> <<>>, issued |-> 0]

\* The threads that ask the namespace for a bucket.
Callers == 1..NumCallers

\* A thread outside a call; `bucket` is what its last call returned: 0 for
\* nothing yet, NoBucket for an error, else the number of the bucket object.
NoBucket == 0 - 1
IdleCaller == [pc |-> "idle", from |-> "none", start_ms |-> 0, bucket |-> 0]

\* The monitor outside a run. Of its last run it keeps the bucket set it
\* found (buckets0), whether create_next_bucket returned Ok (created) and what
\* purge_expired_buckets returned (result).
IdleMonitor ==
    [pc |-> "idle", now |-> 0, expired |-> {}, todo |-> <<>>,
     result |-> "none", meta0 |-> {}, opened |-> {}, buckets0 |-> {},
     created |-> FALSE]

NamespaceInit ==
    /\ bucket_set = {}
    /\ meta_table = {}
    /\ kv_tables = {}
    /\ monitor = IdleMonitor
    /\ clock = 0
    /\ callers = [c \in Callers |-> IdleCaller]
    /\ bucket_creator = 0
    /\ bucket_hist = [calls |-> 0, persisted |-> <<>>, made |-> <<>>]
    /\ namespace_obj = ClosedNamespace
    /\ reader = NoReader
    /\ regions_by_id = NoRegions
    /\ region_objs = <<>>
    /\ region_log = <<>>
    /\ openers = [o \in Openers |-> IdleOpener]
    /\ notifiers = NoNotifiers
    /\ requesters = [r \in Requesters |-> IdleRequester]
    /\ dedup_hist = NoDedupHist

\* The clock moves on by a bucket duration.
Tick ==
    /\ clock < MaxDays
    /\ clock' = clock + 1
    /\ UNCHANGED <<bucket_set, meta_table, kv_tables, monitor, accessVars, moreVars, engineVars,
                   regionVars, cleanerVars, pureVars>>

\* The timed task starts bucket_monitor_routine(inner, now).
MonitorStart ==
    /\ monitor.pc = "idle"
    /\ monitor' = [monitor EXCEPT !.pc = "create", !.now = clock,
                                  !.result = "none", !.expired = {},
                                  !.todo = <<>>, !.buckets0 = bucket_set,
                                  !.created = FALSE]
    /\ UNCHANGED <<bucket_set, meta_table, kv_tables, clock, accessVars, moreVars, engineVars,
                   regionVars, cleanerVars, pureVars>>

\* NamespaceInner::create_next_bucket(now): the bucket of the next day is
\* looked up, or its record is persisted (try_persist_bucket) and its shard
\* tables are created one after the other (open_bucket) before it enters the
\* bucket set. `persisted` is the outcome of the write of the record and
\* `created` the number of shard tables created before create_table failed.
\* The routine logs an error and goes on to the purge.
CreateNextBucket(persisted, created) ==
    /\ monitor.pc = "create"
    /\ LET next_start == monitor.now + 1
       IN  IF next_start \in bucket_set
           THEN /\ monitor' = [monitor EXCEPT !.pc = "purge",
                                              !.created = TRUE]
                /\ UNCHANGED <<bucket_set, meta_table, kv_tables>>
           ELSE IF ~persisted /\ next_start \notin meta_table
           THEN /\ monitor' = [monitor EXCEPT !.pc = "purge"]
                /\ UNCHANGED <<bucket_set, meta_table, kv_tables>>
           ELSE /\ meta_table' = meta_table \cup {next_start}
                /\ kv_tables' = kv_tables \cup
                                    {<<next_start, s>> : s \in 1..created}
                /\ bucket_set' = IF created = NumShards
                                 THEN bucket_set \cup {next_start}
                                 ELSE bucket_set
                /\ monitor' = [monitor EXCEPT
                       !.pc = "purge",
                       !.created = (created = NumShards),
                       !.opened = IF created = NumShards
                                  THEN monitor.opened \cup {next_start}
                                  ELSE monitor.opened]
    /\ UNCHANGED <<clock, accessVars, moreVars, engineVars, regionVars, cleanerVars, pureVars>>

\* Expiry by the start of the bucket alone.
ExpiredBuckets_ByStart(buckets, now, ttl) ==
    {b \in buckets : b <= now - ttl}

\* BucketSet::expired_buckets(now, ttl): the buckets that start at or before
\* earliest = now - ttl and have ended by then.
ExpiredBuckets(buckets, now, ttl) ==
    {b \in buckets : b <= now - ttl /\ b + 1 <= now - ttl}

\* The (bucket, shard table) pairs of the buckets, bucket by bucket in the
\* order of the bucket set, shard by shard.
RECURSIVE ShardTablesOf(_)
ShardTablesOf(buckets) ==
    IF buckets = {} THEN <<>>
    ELSE LET b == MinOf(buckets)
         IN  [s \in Shards |-> <<b, s>>] \o ShardTablesOf(buckets \ {b})

\* A purge that deletes the bucket records before it drops the tables.
PurgeAfter_MetaFirst(step) ==
    CASE step = "begin" -> "write_meta"
      [] step = "write_meta" -> "drop"
      [] step = "drop" -> "remove"
      [] step = "remove" -> "idle"

\* The order of purge_expired_buckets: all shard tables of all expired buckets
\* are dropped, then one batch deleting their records is written to the meta
\* table, then the buckets leave the bucket set.
PurgeAfter(step) ==
    CASE step = "begin" -> "drop"
      [] step = "drop" -> "write_meta"
      [] step = "write_meta" -> "remove"
      [] step = "remove" -> "idle"

\* purge_expired_buckets(now): nothing to do without expired buckets.
PurgeBegin ==
    /\ monitor.pc = "purge"
    /\ LET expired == ExpiredBuckets(bucket_set, monitor.now, TtlDays)
       IN  monitor' = [monitor EXCEPT
               !.pc = IF expired = {} THEN "idle" ELSE PurgeAfter("begin"),
               !.result = IF expired = {} THEN "Ok" ELSE "none",
               !.expired = expired,
               !.todo = ShardTablesOf(expired),
               !.meta0 = meta_table]
    /\ UNCHANGED <<bucket_set, meta_table, kv_tables, clock, accessVars, moreVars, engineVars,
                   regionVars, cleanerVars, pureVars>>

\* table_kv.drop_table(table_name) for the next shard table; its error ends
\* the purge (DropShard).
DropShardTable(ok) ==
    /\ monitor.pc = "drop"
    /\ IF ok
       THEN /\ kv_tables' = kv_tables \ {Head(monitor.todo)}
            /\ monitor' = [monitor EXCEPT
                   !.todo = Tail(monitor.todo),
                   !.pc = IF Len(monitor.todo) = 1
                          THEN PurgeAfter("drop") ELSE "drop"]
       ELSE /\ monitor' = [monitor EXCEPT !.pc = "idle",
                                          !.result = "DropShard"]
            /\ UNCHANGED kv_tables
    /\ UNCHANGED <<bucket_set, meta_table, clock, accessVars, moreVars, engineVars, regionVars, cleanerVars, pureVars>>

\* table_kv.write(meta_table_name, batch) with the deletes of the records of
\* the expired buckets; its error ends the purge (PurgeBucket).
WriteMetaBatch(ok) ==
    /\ monitor.pc = "write_meta"
    /\ IF ok
       THEN /\ meta_table' = meta_table \ monitor.expired
            /\ monitor' = [monitor EXCEPT !.pc = PurgeAfter("write_meta")]
       ELSE /\ monitor' = [monitor EXCEPT !.pc = "idle",
                                          !.result = "PurgeBucket"]
            /\ UNCHANGED meta_table
    /\ UNCHANGED <<bucket_set, kv_tables, clock, accessVars, moreVars, engineVars, regionVars, cleanerVars, pureVars>>

\* bucket_set.remove_timed_bucket for every expired bucket.
RemoveTimedBuckets ==
    /\ monitor.pc = "remove"
    /\ bucket_set' = bucket_set \ monitor.expired
    /\ monitor' = [monitor EXCEPT !.pc = PurgeAfter("remove"),
                                  !.result = "Ok"]
    /\ UNCHANGED <<meta_table, kv_tables, clock, accessVars, moreVars, engineVars, regionVars, cleanerVars, pureVars>>

\* ------------------------- table-kv WAL: the threads that ask for a bucket

\* The bucket objects made for the window that starts at start_ms, by number
\* (the places of the window in the history of open_bucket's Arc::new).
BucketsMade(start_ms) ==
    {i \in 1..Len(bucket_hist.made) : bucket_hist.made[i] = start_ms}

\* bucket_set.get_bucket(start_ms).cloned(): the object the set holds for the
\* window, which is the one made last.
BucketOf(start_ms) == MaxOf(BucketsMade(start_ms))

\* The threads are alike: a new call is made by the first thread that is
\* outside a call.
FreeCaller(c) ==
    /\ callers[c].pc = "idle"
    /\ \A v \in 1..(c - 1) : callers[v].pc # "idle"

\* A call returns and releases the bucket creator if it holds it.
CallerReturn(c, bucket) ==
    /\ callers' = [callers EXCEPT ![c].pc = "idle", ![c].bucket = bucket]
    /\ bucket_creator' = IF bucket_creator = c THEN 0 ELSE bucket_creator

\* A creator that does not look the bucket up again under its lock.
CreatorGetBucket_NoLookup(buckets, start_ms) == FALSE

\* BucketCreator::get_or_create_bucket, its first block: with the creator
\* locked, the bucket set is asked once more for the bucket.
CreatorGetBucket(buckets, start_ms) == start_ms \in buckets

\* NamespaceInner::get_or_create_bucket(timestamp), called by a writer
\* (write_log) with Timestamp::now(): the timestamp is floored to the start of
\* its window.
CallGetOrCreateBucket(c) ==
    /\ FreeCaller(c)
    /\ bucket_hist.calls < MaxCalls
    /\ callers' = [callers EXCEPT ![c] =
           [pc |-> "get_bucket", from |-> "write_log", start_ms |-> clock,
            bucket |-> 0]]
    /\ bucket_hist' = [bucket_hist EXCEPT !.calls = bucket_hist.calls + 1]
    /\ UNCHANGED <<bucket_set, meta_table, kv_tables, monitor, clock,
                   bucket_creator, moreVars, engineVars, regionVars, cleanerVars,
                   pureVars>>

\* NamespaceInner::create_next_bucket(now), called by the bucket monitor: the
\* window after the one of now, and straight to the bucket creator.
CallCreateNextBucket(c) ==
    /\ FreeCaller(c)
    /\ bucket_hist.calls < MaxCalls
    /\ clock < MaxDays
    /\ callers' = [callers EXCEPT ![c] =
           [pc |-> "lock", from |-> "bucket_monitor_routine",
            start_ms |-> clock + 1, bucket |-> 0]]
    /\ bucket_hist' = [bucket_hist EXCEPT !.calls = bucket_hist.calls + 1]
    /\ UNCHANGED <<bucket_set, meta_table, kv_tables, monitor, clock,
                   bucket_creator, moreVars, engineVars, regionVars, cleanerVars,
                   pureVars>>

\* get_or_create_bucket, the lookup under `bucket_set.read()`: the bucket is
\* returned when the set holds it.
GetBucket(c) ==
    /\ callers[c].pc = "get_bucket"
    /\ IF callers[c].start_ms \in bucket_set
       THEN CallerReturn(c, BucketOf(callers[c].start_ms))
       ELSE /\ callers' = [callers EXCEPT ![c].pc = "lock"]
            /\ UNCHANGED bucket_creator
    /\ UNCHANGED <<bucket_set, meta_table, kv_tables, monitor, clock,
                   bucket_hist, moreVars, engineVars, regionVars, cleanerVars, pureVars>>

\* `self.bucket_creator.lock().unwrap()`: only one thread can persist and
\* create a new bucket.
LockBucketCreator(c) ==
    /\ callers[c].pc = "lock"
    /\ bucket_creator = 0
    /\ bucket_creator' = c
    /\ callers' = [callers EXCEPT ![c].pc = "creator_get"]
    /\ UNCHANGED <<bucket_set, meta_table, kv_tables, monitor, clock,
                   bucket_hist, moreVars, engineVars, regionVars, cleanerVars, pureVars>>

\* BucketCreator::get_or_create_bucket up to create_bucket.
CreatorLookup(c) ==
    /\ callers[c].pc = "creator_get"
    /\ IF CreatorGetBucket(bucket_set, callers[c].start_ms)
       THEN CallerReturn(c, BucketOf(callers[c].start_ms))
       ELSE /\ callers' = [callers EXCEPT ![c].pc = "persist"]
            /\ UNCHANGED bucket_creator
    /\ UNCHANGED <<bucket_set, meta_table, kv_tables, monitor, clock,
                   bucket_hist, moreVars, engineVars, regionVars, cleanerVars, pureVars>>

\* BucketCreator::try_persist_bucket: the bucket's record is inserted into the
\* meta table; when the key exists already the record is loaded from storage
\* instead, and any other error of the write is returned.
TryPersistBucket(c, ok) ==
    /\ callers[c].pc = "persist"
    /\ LET start_ms == callers[c].start_ms
       IN  IF start_ms \in meta_table
           THEN /\ callers' = [callers EXCEPT ![c].pc = "open"]
                /\ UNCHANGED <<meta_table, bucket_hist, bucket_creator>>
           ELSE IF ok
           THEN /\ meta_table' = meta_table \cup {start_ms}
                /\ bucket_hist' = [bucket_hist EXCEPT
                       !.persisted = Append(bucket_hist.persisted, start_ms)]
                /\ callers' = [callers EXCEPT ![c].pc = "open"]
                /\ UNCHANGED bucket_creator
           ELSE /\ CallerReturn(c, NoBucket)
                /\ UNCHANGED <<meta_table, bucket_hist>>
    /\ UNCHANGED <<bucket_set, kv_tables, monitor, clock, moreVars, engineVars,
                   regionVars, cleanerVars, pureVars>>

\* NamespaceInner::open_bucket: the shard tables of the bucket are created
\* if needed, `created` of them before an error; then the bucket is put
\* behind an Arc and inserted into the bucket set, where insert_bucket
\* asserts that it replaces no bucket.
OpenBucket(c, created) ==
    /\ callers[c].pc = "open"
    /\ LET start_ms == callers[c].start_ms
       IN  /\ kv_tables' = kv_tables \cup {<<start_ms, s>> : s \in 1..created}
           /\ IF created < NumShards
              THEN /\ CallerReturn(c, NoBucket)
                   /\ UNCHANGED <<bucket_set, bucket_hist>>
              ELSE /\ bucket_hist' = [bucket_hist EXCEPT
                          !.made = Append(bucket_hist.made, start_ms)]
                   /\ IF start_ms \in bucket_set
                      THEN /\ callers' = [callers EXCEPT ![c].pc = "panic"]
                           /\ UNCHANGED <<bucket_set, bucket_creator>>
                      ELSE /\ bucket_set' = bucket_set \cup {start_ms}
                           /\ CallerReturn(c, Len(bucket_hist.made) + 1)
    /\ UNCHANGED <<meta_table, monitor, clock, moreVars, engineVars, regionVars,
                   cleanerVars, pureVars>>

\* --------------------------------------- table-kv WAL: Namespace::open

\* BucketSet::get_bucket(start_ms): the bucket of the window in a timed set,
\* the one bucket, whatever the window, in a permanent set.
HasBucket(kind, buckets, start_ms) ==
    IF kind = "Timed" THEN start_ms \in buckets ELSE buckets # {}

\* BucketSet::expired_buckets(now, ttl) of either kind of set: a permanent
\* bucket never ends, and a permanent set has no expired buckets.
ExpiredOfKind(kind, buckets, now, ttl) ==
    IF kind = "Timed"
    THEN ExpiredBuckets(buckets \ {PermanentBucket}, now, ttl)
    ELSE {}

\* Namespace::open(table_kv, runtimes, name, config): the entry of the
\* namespace is loaded from the meta table, or made from the config and
\* persisted when there is none (try_persist_namespace). Namespace::new makes
\* the bucket set of the kind `config.ttl` asks for, loads the persisted
\* buckets into it (load_buckets, where insert_bucket panics on a second
\* bucket for a permanent set) and starts the bucket monitor when
\* `entry.wal.ttl` is some ttl and the log cleaner when it is none.
NamespaceOpen(config) ==
    /\ namespace_obj.state = "closed"
    /\ LET entry == IF namespace_obj.entry = "absent" THEN config
                    ELSE namespace_obj.entry
           kind == IF config # "none" THEN "Timed" ELSE "Permanent"
           overwrite == kind = "Permanent" /\ Cardinality(meta_table) > 1
       IN  /\ namespace_obj' =
                  [state |-> IF overwrite THEN "panic" ELSE "open",
                   entry |-> entry, config |-> config, bucket_set |-> kind,
                   monitor_handle |-> ~overwrite /\ entry # "none",
                   cleaner_handle |-> ~overwrite /\ entry = "none",
                   monitor_ran |-> FALSE]
           /\ bucket_set' = IF overwrite THEN {MinOf(meta_table)}
                            ELSE meta_table
           /\ kv_tables' = kv_tables \cup
                  {<<b, s>> : b \in bucket_set', s \in Shards}
    /\ UNCHANGED <<meta_table, monitor, clock, accessVars, readVars, regVars,
                   dedupVars, engineVars, regionVars, cleanerVars, pureVars>>

\* Namespace::close: the timed tasks are stopped; the Namespace object and
\* its bucket set go, the meta table and the shard tables stay.
NamespaceClose ==
    /\ namespace_obj.state = "open"
    /\ namespace_obj' = [namespace_obj EXCEPT !.state = "closed",
                                      !.monitor_handle = FALSE,
                                      !.cleaner_handle = FALSE,
                                      !.monitor_ran = FALSE]
    /\ bucket_set' = {}
    /\ UNCHANGED <<meta_table, kv_tables, monitor, clock, accessVars,
                   readVars, regVars, dedupVars, engineVars, regionVars,
                   cleanerVars, pureVars>>

\* bucket_monitor_routine(inner, now) from its start to its end, with a table
\* kv that does not fail; the timed task of the monitor runs it, and the
\* tests call it on namespaces with and without a ttl. create_next_bucket
\* makes a timed bucket when `config.ttl` is some ttl and the permanent bucket
\* when it is none; purge_expired_buckets purges when `entry.wal.ttl` is some
\* ttl.
BucketMonitorRoutine ==
    /\ namespace_obj.state = "open"
    /\ LET now == clock
           next_start == now + 1
           bucket == IF namespace_obj.config # "none" THEN next_start
                     ELSE PermanentBucket
           created == IF HasBucket(namespace_obj.bucket_set, bucket_set,
                                   next_start)
                      THEN {} ELSE {bucket}
           expired == IF namespace_obj.entry # "none"
                      THEN ExpiredOfKind(namespace_obj.bucket_set,
                                         bucket_set \cup created, now,
                                         TtlDays)
                      ELSE {}
       IN  /\ bucket_set' = (bucket_set \cup created) \ expired
           /\ meta_table' = (meta_table \cup created) \ expired
           /\ kv_tables' =
                  {t \in kv_tables \cup {<<b, s>> : b \in created, s \in Shards} :
                       t[1] \notin expired}
    /\ namespace_obj' = [namespace_obj EXCEPT !.monitor_ran = TRUE]
    /\ UNCHANGED <<monitor, clock, accessVars, readVars, regVars, dedupVars,
                   engineVars, regionVars, cleanerVars, pureVars>>

\* ------------------------------------ table-kv WAL: a reader of the log

\* NamespaceInner::read_log(ctx, req): the buckets of the bucket set are
\* listed (list_buckets clones their Arcs under `bucket_set.read()`) and
\* handed to the region's iterator, which will scan the shard table of the
\* region in every one of them. No lock is held once the list is made.
ReadLog(shard) ==
    /\ reader.pc = "none"
    /\ reader' = [pc |-> IF bucket_set = {} THEN "done" ELSE "iter",
                  buckets |-> bucket_set, shard |-> shard, scanned |-> {},
                  result |-> IF bucket_set = {} THEN "Ok" ELSE "none"]
    /\ UNCHANGED <<bucket_set, meta_table, kv_tables, monitor, clock,
                   accessVars, openVars, regVars, dedupVars, engineVars,
                   regionVars, cleanerVars, pureVars>>

\* TableLogIterator: the scan of the region's shard table in the next bucket
\* of the list, oldest first; the scan of a table that was dropped is an
\* error of the table kv, which ends the read.
ScanNextBucket ==
    /\ reader.pc = "iter"
    /\ LET b == MinOf(reader.buckets \ reader.scanned)
           last == reader.buckets \ reader.scanned = {b}
       IN  IF <<b, reader.shard>> \in kv_tables
           THEN reader' = [reader EXCEPT
                    !.scanned = reader.scanned \cup {b},
                    !.pc = IF last THEN "done" ELSE "iter",
                    !.result = IF last THEN "Ok" ELSE "none"]
           ELSE reader' = [reader EXCEPT !.pc = "done", !.result = "Err"]
    /\ UNCHANGED <<bucket_set, meta_table, kv_tables, monitor, clock,
                   accessVars, openVars, regVars, dedupVars, engineVars,
                   regionVars, cleanerVars, pureVars>>

\* --------------------------------- table-kv WAL: the regions in memory

\* The threads are alike: a new call is made by the first thread that is
\* outside a call.
FreeOpener(o) ==
    /\ openers[o].pc = "idle"
    /\ \A v \in 1..(o - 1) : openers[v].pc # "idle"

\* The writes made and the writes in progress.
RegionWritesBegun ==
    Len(region_log) + Cardinality({o \in Openers : openers[o].pc # "idle"})

\* The sequence numbers a region has in storage, and the last of them.
PersistedOf(region_id) ==
    {region_log[i].sequence :
         i \in {k \in 1..Len(region_log) :
                    region_log[k].region_id = region_id}}

LastPersisted(region_id) ==
    IF PersistedOf(region_id) = {} THEN 0 ELSE MaxOf(PersistedOf(region_id))

\* An insert that replaces the region in the map.
InsertOrGetRegion_Replace(existing, region) == region

\* NamespaceInner::insert_or_get_region(region), under `regions.write()`: the
\* region the map holds for the id if there is one, else the given region,
\* which goes into the map.
InsertOrGetRegion(existing, region) ==
    IF existing # 0 THEN existing ELSE region

\* NamespaceInner::write_log(ctx, batch) for a batch of region_id begins; the
\* bucket is got first (see the threads that ask for a bucket).
CallWriteLog(o, region_id) ==
    /\ FreeOpener(o)
    /\ RegionWritesBegun < MaxRegionWrites
    /\ openers' = [openers EXCEPT ![o] =
           [pc |-> "get", region_id |-> region_id, made |-> 0, region |-> 0]]
    /\ UNCHANGED <<regions_by_id, region_objs, region_log, bucket_set,
                   meta_table, kv_tables, monitor, clock, accessVars,
                   openVars, readVars, dedupVars, engineVars, regionVars,
                   cleanerVars, pureVars>>

\* get_or_create_region: get_region_from_memory under `regions.read()`.
GetRegionFromMemory(o) ==
    /\ openers[o].pc = "get"
    /\ LET region == regions_by_id[openers[o].region_id]
       IN  openers' = [openers EXCEPT
               ![o].pc = IF region # 0 THEN "write" ELSE "open",
               ![o].region = region]
    /\ UNCHANGED <<regions_by_id, region_objs, region_log, bucket_set,
                   meta_table, kv_tables, monitor, clock, accessVars,
                   openVars, readVars, dedupVars, engineVars, regionVars,
                   cleanerVars, pureVars>>

\* create_region: Region::open_or_create makes a Region whose counter starts
\* at the last sequence number the region has in storage; an error of the
\* table kv ends the call.
RegionOpenOrCreate(o, ok) ==
    /\ openers[o].pc = "open"
    /\ IF ok
       THEN /\ region_objs' = Append(region_objs,
                   [region_id |-> openers[o].region_id,
                    last_sequence |-> LastPersisted(openers[o].region_id)])
            /\ openers' = [openers EXCEPT ![o].pc = "insert",
                                          ![o].made = Len(region_objs) + 1]
       ELSE /\ openers' = [openers EXCEPT ![o].pc = "idle"]
            /\ UNCHANGED region_objs
    /\ UNCHANGED <<regions_by_id, region_log, bucket_set, meta_table,
                   kv_tables, monitor, clock, accessVars, openVars, readVars,
                   dedupVars, engineVars, regionVars, cleanerVars, pureVars>>

\* create_region: `self.insert_or_get_region(Arc::new(region))`.
RegionInsertOrGet(o) ==
    /\ openers[o].pc = "insert"
    /\ LET region_id == openers[o].region_id
           region == InsertOrGetRegion(regions_by_id[region_id],
                                       openers[o].made)
       IN  /\ regions_by_id' = [regions_by_id EXCEPT ![region_id] = region]
           /\ openers' = [openers EXCEPT ![o].pc = "write",
                                         ![o].region = region]
    /\ UNCHANGED <<region_objs, region_log, bucket_set, meta_table,
                   kv_tables, monitor, clock, accessVars, openVars, readVars,
                   dedupVars, engineVars, regionVars, cleanerVars, pureVars>>

\* write_log: `region.write_log(table_kv, bucket, ctx, batch)` for a batch of
\* one entry, which gets the next sequence number of the Region the caller
\* holds.
RegionWriteLog(o) ==
    /\ openers[o].pc = "write"
    /\ LET region == openers[o].region
           sequence == region_objs[region].last_sequence + 1
       IN  /\ region_objs' = [region_objs EXCEPT
                   ![region].last_sequence = sequence]
           /\ region_log' = Append(region_log,
                   [region_id |-> openers[o].region_id,
                    sequence |-> sequence])
    /\ openers' = [openers EXCEPT ![o].pc = "idle"]
    /\ UNCHANGED <<regions_by_id, bucket_set, meta_table, kv_tables, monitor,
                   clock, accessVars, openVars, readVars, dedupVars,
                   engineVars, regionVars, cleanerVars, pureVars>>

\* ------------------------------------------- server: request notifiers

\* The threads are alike: a new call is made by the first thread that is
\* outside a call.
FreeRequester(r) ==
    /\ requesters[r].pc = "idle"
    /\ \A v \in 1..(r - 1) : requesters[v].pc # "idle"

\* `notifiers_by_key.get(&key)` is Some.
HasKey(key) == notifiers[key] # <<>>

\* An insert_notifier call takes effect: the notifier is in the map and the
\* call returns `result`; `path` is the lock it held.
InsertEvent(r, result, path) ==
    [op |-> "insert", key |-> requesters[r].key,
     notifier |-> requesters[r].notifier, result |-> result, path |-> path,
     taken |-> <<>>, inflight |-> {}]

\* A run makes as many take_notifiers calls as it passes notifiers in.
MaxTakes == MaxNotifiers

\* The take_notifiers calls that have returned.
TakesDone ==
    Cardinality({i \in 1..Len(dedup_hist.events) :
                     dedup_hist.events[i].op = "take"})

\* An insert that takes the write lock and does not look again.
DoubleCheck_Skipped(exists) == FALSE

\* insert_notifier, "double check": under the write lock the key is looked up
\* once more.
DoubleCheck(exists) == exists

\* A take that hands the notifiers out and leaves them in the map.
RemoveKey_Kept(key_notifiers) == key_notifiers

\* take_notifiers: `.remove(key)` leaves no entry for the key.
RemoveKey(key_notifiers) == <<>>

\* RequestNotifiers::insert_notifier(key, notifier) is called with a new
\* notifier.
CallInsertNotifier(r, key) ==
    /\ FreeRequester(r)
    /\ dedup_hist.issued < MaxNotifiers
    /\ requesters' = [requesters EXCEPT ![r] =
           [pc |-> "read", key |-> key, notifier |-> dedup_hist.issued + 1]]
    /\ dedup_hist' = [dedup_hist EXCEPT !.issued = dedup_hist.issued + 1]
    /\ UNCHANGED <<notifiers, bucket_set, meta_table, kv_tables, monitor,
                   clock, accessVars, openVars, readVars, regVars, engineVars,
                   regionVars, cleanerVars, pureVars>>

\* insert_notifier under `notifiers_by_key.read()`: when the key exists the
\* notifier is added to its notifiers and the call returns Wait; otherwise the
\* read lock is dropped.
InsertUnderRead(r) ==
    /\ requesters[r].pc = "read"
    /\ IF HasKey(requesters[r].key)
       THEN /\ notifiers' = [notifiers EXCEPT
                   ![requesters[r].key] = Append(@, requesters[r].notifier)]
            /\ dedup_hist' = [dedup_hist EXCEPT
                   !.events = Append(@, InsertEvent(r, "Wait", "read"))]
            /\ requesters' = [requesters EXCEPT ![r].pc = "idle"]
       ELSE /\ requesters' = [requesters EXCEPT ![r].pc = "write"]
            /\ UNCHANGED <<notifiers, dedup_hist>>
    /\ UNCHANGED <<bucket_set, meta_table, kv_tables, monitor, clock,
                   accessVars, openVars, readVars, regVars, engineVars,
                   regionVars, cleanerVars, pureVars>>

\* insert_notifier under `notifiers_by_key.write()`: the notifier is added to
\* the notifiers of a key that exists by now (Wait), or the key is inserted
\* with the notifier as its only one (First).
InsertUnderWrite(r) ==
    /\ requesters[r].pc = "write"
    /\ IF DoubleCheck(HasKey(requesters[r].key))
       THEN /\ notifiers' = [notifiers EXCEPT
                   ![requesters[r].key] = Append(@, requesters[r].notifier)]
            /\ dedup_hist' = [dedup_hist EXCEPT
                   !.events = Append(@, InsertEvent(r, "Wait", "write"))]
       ELSE /\ notifiers' = [notifiers EXCEPT
                   ![requesters[r].key] = <<requesters[r].notifier>>]
            /\ dedup_hist' = [dedup_hist EXCEPT
                   !.events = Append(@, InsertEvent(r, "First", "write"))]
    /\ requesters' = [requesters EXCEPT ![r].pc = "idle"]
    /\ UNCHANGED <<bucket_set, meta_table, kv_tables, monitor, clock,
                   accessVars, openVars, readVars, regVars, engineVars,
                   regionVars, cleanerVars, pureVars>>

\* RequestNotifiers::take_notifiers(key), under `notifiers_by_key.write()`:
\* the key is removed and its notifiers are returned, None without the key.
\* The history notes the notifiers of the insert calls for the key that were
\* between their two locks at that moment.
TakeNotifiers(key) ==
    /\ TakesDone < MaxTakes
    /\ notifiers' = [notifiers EXCEPT ![key] = RemoveKey(@)]
    /\ dedup_hist' = [dedup_hist EXCEPT
           !.events = Append(@,
               [op |-> "take", key |-> key, notifier |-> 0,
                result |-> IF HasKey(key) THEN "Some" ELSE "None",
                path |-> "write", taken |-> notifiers[key],
                inflight |-> {requesters[r].notifier :
                                  r \in {v \in Requesters :
                                             /\ requesters[v].pc = "write"
                                             /\ requesters[v].key = key}}])]
    /\ UNCHANGED <<requesters, bucket_set, meta_table, kv_tables, monitor,
                   clock, accessVars, openVars, readVars, regVars, engineVars,
                   regionVars, cleanerVars, pureVars>>

\* -------------------------------------- table-kv WAL: the log cleaner

KvRegionIds == 1..NumKvRegions

\* The region meta of a region that was never written.
NoRegionEntry == [exists |-> FALSE, next_sequence_num |-> 1, start_sequence |-> 1]

\* The region meta and the log of a region written before the namespace was
\* opened: PreEntries entries, none deleted.
PreEntries == 2
OldRegionEntry ==
    [exists |-> TRUE, next_sequence_num |-> PreEntries + 1, start_sequence |-> 1]
OldLog(r) == {[region |-> r, sequence |-> q, val |-> <<"old", r, q>>] :
                  q \in 1..PreEntries}

IdleCleaner == [pc |-> "idle", todo |-> <<>>, result |-> "none"]

\* Namespace::open: no region is in memory; what is persisted is what earlier
\* runs left: region 1 was written, the other regions were not.
CleanerInit ==
    /\ kv_regions = {}
    /\ kv_region_meta = [r \in KvRegionIds |->
                             IF r = 1 THEN OldRegionEntry ELSE NoRegionEntry]
    /\ kv_log = UNION {IF kv_region_meta[r].exists THEN OldLog(r) ELSE {} :
                           r \in KvRegionIds}
    /\ cleaner = IdleCleaner
    /\ kv_hist = [written |-> kv_log,
                  marked |-> [r \in KvRegionIds |-> 0],
                  marked0 |-> [r \in KvRegionIds |-> 0]]

\* NamespaceInner::write_log: the region is created or opened, and
\* Region::write_log appends the batch with the next sequence numbers of the
\* region; a failed write leaves nothing.
KvWriteLog(r, len, ok) ==
    /\ Cardinality(kv_hist.written) + len <= PreEntries + MaxKvWrites
    /\ LET next == kv_region_meta[r].next_sequence_num
           batch == {[region |-> r, sequence |-> next + i - 1,
                      val |-> <<"new", r, next + i - 1>>] : i \in 1..len}
       IN  IF ok
           THEN /\ kv_regions' = kv_regions \cup {r}
                /\ kv_region_meta' = [kv_region_meta EXCEPT
                       ![r].exists = TRUE,
                       ![r].next_sequence_num = next + len]
                /\ kv_log' = kv_log \cup batch
                /\ kv_hist' = [kv_hist EXCEPT
                       !.written = kv_hist.written \cup batch]
           ELSE UNCHANGED <<kv_regions, kv_region_meta, kv_log, kv_hist>>
    /\ UNCHANGED <<cleaner, engineVars, regionVars, namespaceVars, pureVars>>

\* NamespaceInner::delete_entries(region_id, sequence_num): a region that
\* neither is in memory nor can be opened makes it a no-op; otherwise
\* Region::delete_entries_up_to persists that the entries up to sequence_num
\* are deleted.
KvDeleteEntries(r, sequence_num, ok) ==
    /\ kv_hist.marked[r] < sequence_num
    /\ sequence_num < kv_region_meta[r].next_sequence_num
    /\ IF ~kv_region_meta[r].exists
       THEN UNCHANGED <<kv_regions, kv_region_meta, kv_hist>>
       ELSE /\ kv_regions' = kv_regions \cup {r}
            /\ IF ok
               THEN /\ kv_region_meta' = [kv_region_meta EXCEPT
                           ![r].start_sequence =
                               Max(kv_region_meta[r].start_sequence,
                                   sequence_num + 1)]
                    /\ kv_hist' = [kv_hist EXCEPT !.marked[r] = sequence_num]
               ELSE UNCHANGED <<kv_region_meta, kv_hist>>
    /\ UNCHANGED <<kv_log, cleaner, engineVars, regionVars, namespaceVars, pureVars>>

\* A cleaner that finds no region to clean.
ListRegions_None == {}

\* NamespaceInner::list_regions: the regions in memory.
ListRegions == kv_regions

\* Some order of a set as a sequence (the order of regions.values()).
RECURSIVE SeqOf(_)
SeqOf(S) ==
    IF S = {} THEN <<>>
    ELSE LET x == MinOf(S) IN <<x>> \o SeqOf(S \ {x})

\* log_cleaner_routine starts NamespaceInner::clean_deleted_logs, which lists
\* the regions.
CleanerStart ==
    /\ cleaner.pc = "idle"
    /\ LET regions == SeqOf(ListRegions)
       IN  cleaner' = [pc |-> IF regions = <<>> THEN "idle" ELSE "clean",
                       todo |-> regions,
                       result |-> IF regions = <<>> THEN "Ok" ELSE "none"]
    /\ kv_hist' = [kv_hist EXCEPT !.marked0 = kv_hist.marked]
    /\ UNCHANGED <<kv_regions, kv_region_meta, kv_log, engineVars, regionVars,
                   namespaceVars, pureVars>>

\* clean_deleted_logs: Region::clean_deleted_logs of the next region removes
\* the deleted entries of the region from the tables of the buckets; its
\* error ends the run (CleanLog).
CleanRegion(ok) ==
    /\ cleaner.pc = "clean"
    /\ LET r == Head(cleaner.todo)
       IN  IF ok
           THEN /\ kv_log' = {e \in kv_log :
                                 e.region = r =>
                                     e.sequence >= kv_region_meta[r].start_sequence}
                /\ cleaner' = [cleaner EXCEPT
                       !.todo = Tail(cleaner.todo),
                       !.pc = IF Len(cleaner.todo) = 1 THEN "idle" ELSE "clean",
                       !.result = IF Len(cleaner.todo) = 1 THEN "Ok" ELSE "none"]
           ELSE /\ cleaner' = [cleaner EXCEPT !.pc = "idle",
                                              !.result = "CleanLog"]
                /\ UNCHANGED kv_log
    /\ UNCHANGED <<kv_regions, kv_region_meta, kv_hist, engineVars, regionVars,
                   namespaceVars, pureVars>>

\* ------------------------------------------------ WAL log key encoding

\* Namespace::Log as u8 and NEWEST_LOG_KEY_ENCODING_VERSION.
NamespaceLog == 1
LOG_KEY_ENCODING_V0 == 0

\* u64 values around the byte boundaries.
U64Samples ==
    UNION {{256 ^ e - 1, 256 ^ e, 256 ^ e + 1} : e \in 0..MaxByteExp}

\* LogKey = (RegionId, SequenceNumber).
LogKeys == [region_id : U64Samples, sequence_num : U64Samples]

NoBytes == <<>>
NoLogKeys ==
    [a |-> [region_id |-> 0, sequence_num |-> 0],
     b |-> [region_id |-> 0, sequence_num |-> 0],
     enc_a |-> NoBytes, enc_b |-> NoBytes]

\* MemBufMut::write_u8.
WriteU8(v) == <<v % 256>>

\* MemBufMut::write_u64: the n = 8 bytes of v, most significant first.
RECURSIVE BigEndian(_, _)
BigEndian(v, n) ==
    IF n = 0 THEN <<>> ELSE BigEndian(v \div 256, n - 1) \o <<v % 256>>

WriteU64(v) == BigEndian(v, 8)

\* A key with the sequence number in front of the region id.
LogKeyEncode_SequenceFirst(namespace, version, key) ==
    WriteU8(namespace) \o WriteU64(key.sequence_num)
        \o WriteU64(key.region_id) \o WriteU8(version)

\* LogKeyEncoder::encode: namespace, region id, sequence number, version.
LogKeyEncode(namespace, version, key) ==
    WriteU8(namespace) \o WriteU64(key.region_id)
        \o WriteU64(key.sequence_num) \o WriteU8(version)

\* LogEncoding::encode_key of both keys with the newest encoder.
EncodeKeys ==
    /\ log_key.enc_a = NoBytes
    /\ log_key' = [log_key EXCEPT
           !.enc_a = LogKeyEncode(NamespaceLog, LOG_KEY_ENCODING_V0, log_key.a),
           !.enc_b = LogKeyEncode(NamespaceLog, LOG_KEY_ENCODING_V0, log_key.b)]
    /\ UNCHANGED <<contiguous_row, sst_build, engineVars, regionVars,
                   namespaceVars, cleanerVars>>

\* The byte-wise lexicographic order of byte strings (the order of the keys
\* of a table kv scan).
RECURSIVE BytesLess(_, _)
BytesLess(x, y) ==
    IF y = <<>> THEN FALSE
    ELSE IF x = <<>> THEN TRUE
    ELSE IF Head(x) # Head(y) THEN Head(x) < Head(y)
    ELSE BytesLess(Tail(x), Tail(y))

\* The order of (region_id, sequence_num) tuples.
LogKeyLess(x, y) ==
    \/ x.region_id < y.region_id
    \/ x.region_id = y.region_id /\ x.sequence_num < y.sequence_num

\* ----------------------------------------------------- contiguous row

\* The datum kinds of the model and DatumKind::into_u8 of them.
DatumKinds == {"UInt8", "UInt16"}
KindCode(kind) ==
    CASE kind = "Null" -> 0 [] kind = "UInt16" -> 8 [] kind = "UInt8" -> 9

\* byte_size_of_datum: the size of the value and one byte of header.
ByteSizeOfDatum(kind) ==
    (CASE kind = "Null" -> 1 [] kind = "UInt16" -> 2 [] kind = "UInt8" -> 1) + 1

DatumNull == [kind |-> "Null", value |-> 0]
\* The datums of a kind; some of their bytes look like a header byte.
DatumsOf(kind) ==
    {DatumNull} \cup
        {[kind |-> kind, value |-> v] :
            v \in IF kind = "UInt8" THEN {9, 200} ELSE {2313}}

\* No column of the writer's schema for a column of the table.
NoColumn == -1

\* to_ne_bytes / from_ne_bytes of an unsigned integer of n bytes.
RECURSIVE ToNeBytes(_, _)
ToNeBytes(v, n) ==
    IF n = 0 THEN <<>> ELSE <<v % 256>> \o ToNeBytes(v \div 256, n - 1)
RECURSIVE FromNeBytes(_)
FromNeBytes(bytes) ==
    IF bytes = <<>> THEN 0 ELSE Head(bytes) + 256 * FromNeBytes(Tail(bytes))

\* write_slice_to_offset: the buffer with the bytes copied to the offset.
WriteSliceToOffset(buf, offset, bytes) ==
    [i \in 1..Len(buf) |->
        IF i - 1 >= offset /\ i - 1 < offset + Len(bytes)
        THEN bytes[i - offset] ELSE buf[i]]

\* BitSet: num_bytes, all_set, unset and is_set (bits in least significant
\* bit order; None of is_set is FALSE here and told apart by the caller).
NumBytes(num_bits) == (num_bits + 7) \div 8
AllSet(num_bits) == [i \in 1..NumBytes(num_bits) |-> 255]
IsSet(bytes, index) ==
    (bytes[(index \div 8) + 1] \div (2 ^ (index % 8))) % 2 = 1
Unset(bytes, num_bits, index) ==
    IF index < num_bits /\ IsSet(bytes, index)
    THEN [bytes EXCEPT ![(index \div 8) + 1] = @ - 2 ^ (index % 8)]
    ELSE bytes

\* The row inputs: the kinds of the columns of the table schema, for every
\* column of the table its index in the writer's schema (0-based) or
\* NoColumn, and one datum for every column of the writer's schema.
RECURSIVE IndexInWriter(_, _)
IndexInWriter(n, present) ==
    IF n = 0 THEN <<>>
    ELSE IndexInWriter(n - 1, present) \o
             <<IF n \in present
               THEN Cardinality({c \in present : c < n}) ELSE NoColumn>>

RowInputs ==
    UNION {
        UNION {
            {[schema |-> schema,
              index_in_writer |-> IndexInWriter(NumColumns, present),
              row |-> row, buf |-> NoBytes, views |-> <<>>, pc |-> "write"] :
                 row \in {r \in [1..Cardinality(present) ->
                                   UNION {DatumsOf(k) : k \in DatumKinds}] :
                             \A c \in present :
                                 r[Cardinality({d \in present : d <= c})]
                                     \in DatumsOf(schema[c])}} :
            present \in SUBSET (1..NumColumns)} :
        schema \in [1..NumColumns -> DatumKinds]}

NoRow == [schema |-> <<>>, index_in_writer |-> <<>>, row |-> <<>>,
          buf |-> NoBytes, views |-> <<>>, pc |-> "done"]

\* The datum of the row for the column of the table (1-based), if the
\* writer has the column.
HasColumn(r, c) == r.index_in_writer[c] # NoColumn
DatumOf(r, c) == r.row[r.index_in_writer[c] + 1]

\* Schema::byte_offsets: the offset of every column in the datum block of a
\* row without nulls.
RECURSIVE SizeOfColumns(_, _)
SizeOfColumns(schema, n) ==
    IF n = 0 THEN 0
    ELSE SizeOfColumns(schema, n - 1) + ByteSizeOfDatum(schema[n])
ByteOffsets(schema) == [c \in 1..Len(schema) |-> SizeOfColumns(schema, c - 1)]

\* ContiguousRowWriter::write_datum of a fixed sized datum.
WriteDatum(st, datum) ==
    IF datum = DatumNull THEN st
    ELSE [st EXCEPT
            !.buf = WriteSliceToOffset(st.buf, st.datum_offset,
                        <<KindCode(datum.kind)>> \o
                        ToNeBytes(datum.value, ByteSizeOfDatum(datum.kind) - 1)),
            !.datum_offset = st.datum_offset + ByteSizeOfDatum(datum.kind)]

\* The loop of write_row_with_nulls over the columns c.. of the table.
RECURSIVE WithNullsFrom(_, _, _)
WithNullsFrom(r, c, st) ==
    IF c > Len(r.schema) THEN st
    ELSE IF HasColumn(r, c)
    THEN LET datum == DatumOf(r, c)
             written == WriteDatum(st, datum)
         IN  WithNullsFrom(r, c + 1,
                 IF datum = DatumNull
                 THEN [written EXCEPT
                         !.bits = Unset(st.bits, Len(r.schema),
                                        r.index_in_writer[c])]
                 ELSE written)
    ELSE WithNullsFrom(r, c + 1, st)

\* write_row_with_nulls.
WriteRowWithNulls(r) ==
    LET present == {c \in 1..Len(r.schema) :
                       HasColumn(r, c) /\ DatumOf(r, c) # DatumNull}
        num_bits == Len(r.schema)
        datum_len == SizeOfColumns([c \in 1..Len(r.schema) |->
                         IF c \in present THEN DatumOf(r, c).kind ELSE "Null"],
                         Len(r.schema))
                     - (Len(r.schema) - Cardinality(present))
                           * ByteSizeOfDatum("Null")
        encoded_len == datum_len + 4 + NumBytes(num_bits)
        st == WithNullsFrom(r, 1,
                  [buf |-> [i \in 1..encoded_len |-> 0],
                   datum_offset |-> 4 + NumBytes(num_bits),
                   bits |-> AllSet(num_bits)])
    IN  WriteSliceToOffset(
            WriteSliceToOffset(st.buf, 0, ToNeBytes(num_bits, 4)),
            4, st.bits)

\* The loop of write_row_without_nulls over the columns c.. of the table.
RECURSIVE WithoutNullsFrom(_, _, _)
WithoutNullsFrom(r, c, st) ==
    IF c > Len(r.schema) THEN st
    ELSE IF HasColumn(r, c)
    THEN WithoutNullsFrom(r, c + 1, WriteDatum(st, DatumOf(r, c)))
    ELSE WithoutNullsFrom(r, c + 1,
             [st EXCEPT !.datum_offset = @ + ByteSizeOfDatum(r.schema[c])])

\* write_row_without_nulls.
WriteRowWithoutNulls(r) ==
    LET encoded_len == SizeOfColumns(r.schema, Len(r.schema)) + 4
    IN  WithoutNullsFrom(r, 1,
            [buf |-> [i \in 1..encoded_len |-> KindCode("Null")],
             datum_offset |-> 4, bits |-> <<>>]).buf

\* ContiguousRowWriter::write_row.
WriteRow ==
    /\ contiguous_row.pc = "write"
    /\ LET r == contiguous_row
           num_null_cols ==
               Cardinality({c \in 1..Len(r.schema) :
                   ~HasColumn(r, c) \/ DatumOf(r, c) = DatumNull})
       IN  contiguous_row' = [r EXCEPT
               !.buf = IF num_null_cols > 0 THEN WriteRowWithNulls(r)
                       ELSE WriteRowWithoutNulls(r),
               !.pc = "read"]
    /\ UNCHANGED <<log_key, sst_build, engineVars, regionVars, namespaceVars,
                   cleanerVars>>

\* ContiguousRowReaderWithNulls::try_new: the offsets of the columns, -1 for
\* a null.
RECURSIVE FixedByteOffsets(_, _, _, _, _)
FixedByteOffsets(schema, bits, num_bits, c, acc_null_bytes) ==
    IF c > Len(schema) THEN <<>>
    ELSE IF c - 1 < num_bits /\ IsSet(bits, c - 1)
    THEN <<ByteOffsets(schema)[c] - acc_null_bytes>> \o
             FixedByteOffsets(schema, bits, num_bits, c + 1, acc_null_bytes)
    ELSE <<-1>> \o
             FixedByteOffsets(schema, bits, num_bits, c + 1,
                 IF c - 1 < num_bits
                 THEN acc_null_bytes + ByteSizeOfDatum(schema[c])
                 ELSE acc_null_bytes)

\* datum_view_at(datum_buf, string_buf) at a position of the buffer: a panic
\* when the bytes are out of bound, null for an unknown kind.
DatumViewAt(buf, pos) ==
    IF pos >= Len(buf) THEN "panic"
    ELSE LET code == buf[pos + 1]
             kinds == {k \in DatumKinds : KindCode(k) = code}
         IN  IF kinds = {} THEN DatumNull
             ELSE LET kind == CHOOSE k \in kinds : TRUE
                      size == ByteSizeOfDatum(kind) - 1
                  IN  IF pos + 1 + size > Len(buf) THEN "panic"
                      ELSE [kind |-> kind,
                            value |-> FromNeBytes(
                                SubSeq(buf, pos + 2, pos + 1 + size))]

\* ContiguousRowReader::try_new and datum_view_at of every column.
ReadRow ==
    /\ contiguous_row.pc = "read"
    /\ LET r == contiguous_row
           num_bits == FromNeBytes(SubSeq(r.buf, 1, 4))
           bits == SubSeq(r.buf, 5, 4 + NumBytes(num_bits))
           offsets == IF num_bits > 0
                      THEN FixedByteOffsets(r.schema, bits, num_bits, 1, 0)
                      ELSE ByteOffsets(r.schema)
           datum_offset == IF num_bits > 0 THEN 4 + NumBytes(num_bits) ELSE 4
       IN  contiguous_row' = [r EXCEPT
               !.views = [c \in 1..Len(r.schema) |->
                             IF offsets[c] < 0 THEN DatumNull
                             ELSE DatumViewAt(r.buf, datum_offset + offsets[c])],
               !.pc = "done"]
    /\ UNCHANGED <<log_key, sst_build, engineVars, regionVars, namespaceVars,
                   cleanerVars>>

\* ------------------------------------------------- parquet SST builder

\* A record batch of the stream: its rows, named by batch and position.
RecordBatch(b, num_rows) == [i \in 1..num_rows |-> <<b, i>>]

\* The rows of a sequence of record batches, in order.
RECURSIVE RowsOf(_)
RowsOf(batches) ==
    IF batches = <<>> THEN <<>> ELSE Head(batches) \o RowsOf(Tail(batches))

\* pending_fetched_record_batch: None.
NoPending == "None"

\* ParquetSstBuilder::build: a RecordBytesReader over a stream of non-empty
\* record batches, with the num_rows_per_row_group of the options.
SstInputs ==
    UNION {{[record_stream |-> [b \in 1..n |-> RecordBatch(b, sizes[b])],
             input |-> [b \in 1..n |-> RecordBatch(b, sizes[b])],
             num_rows_per_row_group |-> limit,
             fetched_row_num |-> 0,
             fetched_record_batch |-> <<>>,
             pending_fetched_record_batch |-> NoPending,
             encoded |-> <<>>,
             total_row_num |-> 0,
             pc |-> "partition"] :
                sizes \in [1..n -> 1..MaxBatchRows],
                limit \in 1..(MaxBatchRows + 1)} :
           n \in 0..MaxBatches}

NoSst == [record_stream |-> <<>>, input |-> <<>>,
          num_rows_per_row_group |-> 1, fetched_row_num |-> 0,
          fetched_record_batch |-> <<>>,
          pending_fetched_record_batch |-> NoPending, encoded |-> <<>>,
          total_row_num |-> 0, pc |-> "done"]

\* partition_record_batch: one turn of the loop over the stream, and the end
\* of the stream. take().unwrap() of a pending vector that is None panics.
PartitionRecordBatch ==
    /\ sst_build.pc = "partition"
    /\ LET s == sst_build
       IN  IF s.record_stream = <<>>
           THEN sst_build' = [s EXCEPT
                    !.fetched_record_batch =
                        IF s.pending_fetched_record_batch = NoPending THEN @
                        ELSE Append(@, s.pending_fetched_record_batch),
                    !.pending_fetched_record_batch = NoPending,
                    !.pc = "encode"]
           ELSE LET record_batch == Head(s.record_stream)
                    fetched_row_num == s.fetched_row_num + Len(record_batch)
                IN  IF fetched_row_num >= s.num_rows_per_row_group
                    THEN IF s.pending_fetched_record_batch = NoPending
                         THEN sst_build' = [s EXCEPT
                                  !.record_stream = Tail(@),
                                  !.fetched_row_num = 0,
                                  !.pc = "panic"]
                         ELSE sst_build' = [s EXCEPT
                                  !.record_stream = Tail(@),
                                  !.fetched_row_num = 0,
                                  !.fetched_record_batch =
                                      Append(@, s.pending_fetched_record_batch),
                                  !.pending_fetched_record_batch = NoPending]
                    ELSE sst_build' = [s EXCEPT
                             !.record_stream = Tail(@),
                             !.fetched_row_num = fetched_row_num,
                             !.pending_fetched_record_batch =
                                 IF @ = NoPending THEN <<record_batch>>
                                 ELSE Append(@, record_batch)]
    /\ UNCHANGED <<log_key, contiguous_row, engineVars, regionVars,
                   namespaceVars, cleanerVars>>

\* read_all: the record batches of the next row group are encoded and their
\* rows are added to total_row_num; after the last one the file is put and
\* build returns SstInfo { row_num: total_row_num }.
EncodeRecordBatch ==
    /\ sst_build.pc = "encode"
    /\ LET s == sst_build
       IN  IF s.fetched_record_batch = <<>>
           THEN sst_build' = [s EXCEPT !.pc = "done"]
           ELSE LET rows == RowsOf(Head(s.fetched_record_batch))
                IN  sst_build' = [s EXCEPT
                        !.fetched_record_batch = Tail(@),
                        !.encoded = @ \o rows,
                        !.total_row_num = @ + Len(rows)]
    /\ UNCHANGED <<log_key, contiguous_row, engineVars, regionVars,
                   namespaceVars, cleanerVars>>

\* ------------------------------------------------------------ specification

Next ==
    \/ \E p \in Procs, kind \in OpKinds : Lock(p, kind)
    \/ \E p \in Procs : Unlock(p)
    \/ \E p \in Procs, sync \in BOOLEAN : MfSchedule(p, sync)
    \/ \E p \in Procs : MfAfterSchedule(p)
    \/ \E p \in Procs : MfRecv(p)
    \/ \E p \in Procs : FsCheck(p)
    \/ \E p \in Procs : FsChanged(p)
    \/ \E p \in Procs : FsSpawn(p)
    \/ \E p \in Procs : FsBlockDone(p)
    \/ \E j \in Jobs : JobStart(j)
    \/ \E j \in Jobs, res \in {"ok"} \cup FlushErrors : JobFinish(j, res)
    \/ \E j \in Jobs : OnFlushFinishedSetState(j)
    \/ \E j \in Jobs : OnFlushFinishedNotify(j)
    \/ \E j \in Jobs : Continuation(j)
    \/ \E j \in Jobs : SendFlushResult(j)
    \/ \E p \in Procs, ver \in Versions, pre \in Versions : AsValidate(p, ver, pre)
    \/ \E p \in Procs : AsFlush(p)
    \/ \E p \in Procs : AsAfterFlush(p)
    \/ \E p \in Procs, ok \in BOOLEAN : AsWriteWal(p, ok)
    \/ \E p \in Procs, ok \in BOOLEAN : AsStoreUpdate(p, ok)
    \/ \E p \in Procs : AsSetSchema(p)
    \/ \E p \in Procs, given \in OptionInputs : AoValidate(p, given)
    \/ \E p \in Procs, ok \in BOOLEAN : AoWriteWal(p, ok)
    \/ \E p \in Procs, ok \in BOOLEAN : AoStoreUpdate(p, ok)
    \/ \E p \in Procs : AoSetOptions(p)
    \/ \E p \in Procs, ok \in BOOLEAN : WriteWal(p, ok)
    \/ \E p \in Procs : WriteMemtable(p)
    \/ \E p \in Procs : DropTable(p)

\* The state of everything but the encoders.
SystemInit == EngineInit /\ RegionInit /\ NamespaceInit /\ CleanerInit

Init ==
    SystemInit /\ log_key = NoLogKeys /\ contiguous_row = NoRow
        /\ sst_build = NoSst

Spec == Init /\ [][Next]_vars

\* The steps of a thread inside flush_sequentially, and the steps of a task.
FlushCallStep(p) ==
    FsCheck(p) \/ FsChanged(p) \/ FsSpawn(p) \/ FsBlockDone(p)

TaskStep(j) ==
    \/ JobStart(j)
    \/ \E res \in {"ok"} \cup FlushErrors : JobFinish(j, res)
    \/ OnFlushFinishedSetState(j)
    \/ OnFlushFinishedNotify(j)
    \/ Continuation(j)
    \/ SendFlushResult(j)

\* The runtime polls every spawned task and every thread that can run, a flush
\* job and a continuation finish; clients are free not to call anything.
Fairness ==
    /\ \A p \in Procs : WF_vars(FlushCallStep(p))
    /\ \A j \in Jobs : WF_vars(TaskStep(j))

SpecFair == Spec /\ Fairness

\* Callers that can be cancelled and a table that can be closed while a
\* flush runs.
NextCancel ==
    \/ Next
    \/ \E p \in Procs : DropCaller(p)
    \/ DropScheduler

SpecCancel == Init /\ [][NextCancel]_vars

NextCrash == Next \/ CrashAndRecover

SpecCrash == Init /\ [][NextCrash]_vars

\* The WAL region alone: writers and mark_delete_to.
NextRegion ==
    \/ \E w \in Writers, t \in TableIds, len \in 0..MaxBatch :
           RegionWrite(w, t, len)
    \/ \E w \in Writers, ok \in BOOLEAN : Produce(w, ok)
    \/ \E w \in Writers, ok \in BOOLEAN : UpdateAfterTableWrite(w, ok)
    \/ \E t \in TableIds, s \in 1..(MaxWrites * MaxBatch) :
           MarkDeleteToInMemory(t, s)

SpecRegion == Init /\ [][NextRegion]_vars

\* The writers that run beside the mark_delete_to calls: one write at a
\* time, of a full batch, which is enough to change the region's meta
\* between two snapshots.
SyncWriters == {w \in Writers : \A v \in Writers : w <= v}

\* The WAL region with writes and concurrent mark_delete_to calls that sync
\* the snapshot of its meta to the meta topic.
NextSync ==
    \/ \E w \in SyncWriters, t \in TableIds, len \in {MaxBatch} :
           RegionWrite(w, t, len)
    \/ \E w \in SyncWriters, ok \in BOOLEAN : Produce(w, ok)
    \/ \E w \in SyncWriters, ok \in BOOLEAN : UpdateAfterTableWrite(w, ok)
    \/ \E m \in Markers, t \in TableIds, s \in 1..(MaxWrites * MaxBatch) :
           MarkAndSnapshot(m, t, s)
    \/ \E m \in Markers : LockSynchronizer(m)
    \/ \E m \in Markers, ok \in BOOLEAN : SyncProduce(m, ok)
    \/ \E m \in Markers, ok \in BOOLEAN : SyncDeleteTo(m, ok)

SpecSync == Init /\ [][NextSync]_vars

\* The WAL region with one scan of it.
NextScan ==
    \/ NextRegion
    \/ ScanRegion
    \/ NextLogEntry

SpecScan == Init /\ [][NextScan]_vars

\* The WAL region with one iterator over a range of its log topic.
NextIter ==
    \/ NextRegion
    \/ \E inclusive_start \in 0..(MaxWrites * MaxBatch),
          exclusive_end \in 0..(MaxWrites * MaxBatch) :
           RangeScan(inclusive_start, exclusive_end)
    \/ NextLogEntry

SpecIter == Init /\ [][NextIter]_vars

\* Threads that ask a namespace with a ttl for buckets, writers and monitor.
NextBucket ==
    \/ Tick
    \/ \E c \in Callers :
        \/ CallGetOrCreateBucket(c)
        \/ CallCreateNextBucket(c)
        \/ GetBucket(c)
        \/ LockBucketCreator(c)
        \/ CreatorLookup(c)
        \/ \E ok \in BOOLEAN : TryPersistBucket(c, ok)
        \/ \E created \in 0..NumShards : OpenBucket(c, created)

SpecBucket == Init /\ [][NextBucket]_vars

\* Threads that write to the regions of a namespace, opening them on the way.
NextRegions ==
    \E o \in Openers :
        \/ \E region_id \in 1..NumKvRegions : CallWriteLog(o, region_id)
        \/ GetRegionFromMemory(o)
        \/ \E ok \in BOOLEAN : RegionOpenOrCreate(o, ok)
        \/ RegionInsertOrGet(o)
        \/ RegionWriteLog(o)

SpecRegions == Init /\ [][NextRegions]_vars

\* Threads that insert request notifiers and take them.
NextDedup ==
    \/ \E r \in Requesters :
        \/ \E key \in RequestKeys : CallInsertNotifier(r, key)
        \/ InsertUnderRead(r)
        \/ InsertUnderWrite(r)
    \/ \E key \in RequestKeys : TakeNotifiers(key)

SpecDedup == Init /\ [][NextDedup]_vars

\* A namespace that is opened, monitored, closed and opened again.
NextOpen ==
    \/ Tick
    \/ \E config \in TtlConfigs : NamespaceOpen(config)
    \/ NamespaceClose
    \/ BucketMonitorRoutine

SpecOpen == Init /\ [][NextOpen]_vars

\* The bucket monitor of a namespace with a ttl.
NextMonitor ==
    \/ Tick
    \/ MonitorStart
    \/ \E persisted \in BOOLEAN, created \in 0..NumShards :
           CreateNextBucket(persisted, created)
    \/ PurgeBegin
    \/ \E ok \in BOOLEAN : DropShardTable(ok)
    \/ \E ok \in BOOLEAN : WriteMetaBatch(ok)
    \/ RemoveTimedBuckets

SpecMonitor == Init /\ [][NextMonitor]_vars

\* The bucket monitor next to one reader of the log.
NextRead ==
    \/ NextMonitor
    \/ \E shard \in Shards : ReadLog(shard)
    \/ ScanNextBucket

SpecRead == Init /\ [][NextRead]_vars

\* The log cleaner of a namespace without ttl, with writes and deletes.
NextCleaner ==
    \/ \E r \in KvRegionIds, len \in 1..MaxBatch, ok \in BOOLEAN :
           KvWriteLog(r, len, ok)
    \/ \E r \in KvRegionIds, s \in 1..(PreEntries + MaxKvWrites),
          ok \in BOOLEAN :
           KvDeleteEntries(r, s, ok)
    \/ CleanerStart
    \/ \E ok \in BOOLEAN : CleanRegion(ok)

SpecCleaner == Init /\ [][NextCleaner]_vars

\* The encoding of two log keys.
NextKey == EncodeKeys

\* Two log keys to encode.
InitKey ==
    /\ SystemInit
    /\ log_key \in {[a |-> x, b |-> y, enc_a |-> NoBytes, enc_b |-> NoBytes] :
                        x \in LogKeys, y \in LogKeys}
    /\ contiguous_row = NoRow
    /\ sst_build = NoSst

SpecKey == InitKey /\ [][NextKey]_vars

\* A row written by a ContiguousRowWriter and read back.
NextRow == WriteRow \/ ReadRow

InitRow ==
    /\ SystemInit
    /\ log_key = NoLogKeys
    /\ contiguous_row \in RowInputs
    /\ sst_build = NoSst

SpecRow == InitRow /\ [][NextRow]_vars

\* A build of a parquet SST from a stream of record batches.
NextSst == PartitionRecordBatch \/ EncodeRecordBatch

InitSst ==
    /\ SystemInit
    /\ log_key = NoLogKeys
    /\ contiguous_row = NoRow
    /\ sst_build \in SstInputs

SpecSst == InitSst /\ [][NextSst]_vars


\* ================================================================ properties

Called(j) == j <= next_job
\* The task of call j exists / its flush job has begun / its flush job is over.
Scheduled(j) == jobs[j].pc # "none"
Started(j) == jobs[j].pc \notin {"none", "spawned"}
Finished(j) == jobs[j].res # "none"
Executing(j) == jobs[j].pc = "flush_job"
\* From the spawn of the task to the reset of the state by on_flush_finished.
InFlight(j) == jobs[j].pc \in {"spawned", "flush_job", "set_state"}
StateSet(j) == jobs[j].set_to.kind # "none"
FailedFast(j) == jobs[j].ret \in ErrMsgs
StalledCaller(j) == \E p \in Procs : pc[p] = "fs_wait" /\ op[p].job = j

\* C1: at most one flush job is executing at any moment; a job exists only
\* while the state is Flushing, that is between the Ready -> Flushing change
\* made by its call and the reset of the state by on_flush_finished.
C1_AtMostOneFlush ==
    /\ Cardinality({j \in Jobs : Executing(j)}) <= 1
    /\ Cardinality({j \in Jobs : InFlight(j)}) <= 1
    /\ \A j \in Jobs : InFlight(j) => flush_state.kind = "Flushing"

\* A flush job is running while another call, made later, waits for it.
C1_Witness ==
    \E j1 \in Jobs, j2 \in Jobs :
        j1 < j2 /\ Executing(j1) /\ StalledCaller(j2)

\* C2: a call that waits on the notifier while a flush is in flight does not
\* wait forever: its own flush job starts (it has seen Ready and set
\* Flushing), unless a flush before it failed, and then it returns that
\* failure.
C2_WaiterProceeds ==
    \A j \in Jobs :
        StalledCaller(j) ~>
            \/ Started(j)
            \/ FailedFast(j) /\ \E j1 \in Jobs : j1 < j /\ jobs[j1].res \in FlushErrors

\* A call that had to wait is now running its own flush job.
C2_Witness ==
    \E j \in Jobs : jobs[j].stalled /\ Executing(j)

\* C3: when a flush job has completed and on_flush_finished has run, the state
\* was set to Ready for Ok and to Failed with the error's message for an
\* error; the state is Flushing only while a call is about to spawn its task
\* or a task has not yet passed on_flush_finished.
C3_StateFromResult ==
    /\ \A j \in Jobs :
          StateSet(j) =>
              /\ jobs[j].res = "ok" => jobs[j].set_to = [kind |-> "Ready", err_msg |-> ""]
              /\ jobs[j].res = "E1" =>
                    jobs[j].set_to = [kind |-> "Failed", err_msg |-> "flush failed: E1"]
              /\ jobs[j].res = "E2" =>
                    jobs[j].set_to = [kind |-> "Failed", err_msg |-> "flush failed: E2"]
    /\ flush_state.kind = "Flushing" =>
          \/ \E j \in Jobs : InFlight(j)
          \/ \E p \in Procs : pc[p] = "fs_spawn"
    /\ \A j \in Jobs :
          Finished(j) /\ jobs[j].pc \notin {"set_state"} /\ jobs[j].res # "ok"
              => flush_state.kind = "Failed"

\* A job failed with E2 and the state carries its message.
C3_Witness ==
    \E j \in Jobs :
        /\ jobs[j].res = "E2"
        /\ StateSet(j)
        /\ flush_state = [kind |-> "Failed", err_msg |-> "flush failed: E2"]

\* C4: once a flush job has failed and the state is Failed(msg), the state
\* stays Failed(msg); every call made after the failed one returns
\* BackgroundFlushFailed carrying msg and its flush job never runs.
C4_FailFast ==
    /\ \A j1 \in Jobs :
          jobs[j1].res \in FlushErrors =>
              /\ StateSet(j1) => flush_state = Failed(ErrToString(jobs[j1].res))
              /\ \A j2 \in Jobs :
                    j1 < j2 /\ Called(j2) =>
                        /\ ~Scheduled(j2)
                        /\ jobs[j2].ret \in {"none", ErrToString(jobs[j1].res)}
    /\ \A j \in Jobs :
          jobs[j].ret \notin {"none", "Ok"} =>
              /\ flush_state = Failed(jobs[j].ret)
              /\ ~Scheduled(j)

\* After a failed flush a later call has returned the failure.
C4_Witness ==
    \E j1 \in Jobs, j2 \in Jobs :
        /\ j1 < j2
        /\ jobs[j1].res = "E1"
        /\ jobs[j2].ret = "flush failed: E1"
        /\ flush_state.kind = "Failed"

\* C5: the continuation has run, or the result has been sent on the reply
\* channel, only after the state was set and the notifier signalled.
C5_NotifyBeforeReply ==
    \A j \in Jobs :
        (jobs[j].cont_ran \/ jobs[j].reply # "none" \/ jobs[j].pc = "continuation"
            \/ jobs[j].pc = "send_result")
            => StateSet(j) /\ jobs[j].notified

\* A task has run its continuation and sent its result.
C5_Witness ==
    \E j \in Jobs : jobs[j].cont_ran /\ jobs[j].reply = "ok" /\ jobs[j].notified

\* C6: a call with block_on_write_thread returns only after its flush job has
\* finished and the state has been set from the result; a call without it
\* has returned as soon as its task is spawned, and never awaits the task.
C6_BlockOnWriteThread ==
    /\ \A j \in Jobs :
          jobs[j].block /\ jobs[j].ret = "Ok" => Finished(j) /\ StateSet(j)
    /\ \A j \in Jobs :
          ~jobs[j].block /\ Scheduled(j) => jobs[j].ret = "Ok"
    /\ \A p \in Procs : pc[p] = "fs_block" => jobs[op[p].job].block

\* A blocking call has returned, and a later non-blocking call has returned
\* while its flush job has not begun.
C6_Witness ==
    \E j1 \in Jobs, j2 \in Jobs :
        /\ jobs[j1].block /\ jobs[j1].ret = "Ok"
        /\ ~jobs[j2].block /\ jobs[j2].ret = "Ok" /\ jobs[j2].pc = "spawned"

\* C7: flush jobs begin in the order of their calls, and a job of a later call
\* has begun only if the job of every earlier call that was scheduled is over.
C7_FlushOrder ==
    /\ \A i \in 1..Len(started), k \in 1..Len(started) :
          i < k => started[i] < started[k]
    /\ \A j1 \in Jobs, j2 \in Jobs :
          j1 < j2 /\ Started(j2) /\ Called(j1) /\ ~FailedFast(j1) => Finished(j1)

\* Two flush jobs have run, the second one after a wait.
C7_Witness ==
    /\ Len(started) >= 2
    /\ \E j \in Jobs : jobs[j].stalled /\ Started(j)

InOperation(p) == pc[p] # "idle"

AlterSchemaReturned(p) == pc[p] = "unlock" /\ op[p].kind = "alter_schema"

\* WAL, manifest, schema and options are what they were when the request of
\* p was validated.
NothingWritten(p) ==
    /\ Len(wal) = op[p].wal0
    /\ manifest = op[p].man0
    /\ schema_version = op[p].cur0
    /\ options = op[p].opt0

\* C9 as claimed: an alter-schema request whose pre_schema_version differs
\* from the current schema version fails with InvalidPreVersion and nothing is
\* written.
C9_Claimed ==
    \A p \in Procs :
        AlterSchemaReturned(p) /\ op[p].pre # op[p].cur0 =>
            op[p].result = "InvalidPreVersion" /\ NothingWritten(p)

\* C9 as amended: on a table that is not dropped, a request whose new schema
\* version is greater than the current version and whose pre_schema_version
\* differs from it fails with InvalidPreVersion and nothing is written; any
\* other request with a differing pre_schema_version fails as well, with
\* AlterDroppedTable or InvalidSchemaVersion, and nothing is written.
C9_InvalidPreVersion ==
    \A p \in Procs :
        AlterSchemaReturned(p) /\ op[p].pre # op[p].cur0 =>
            /\ NothingWritten(p)
            /\ op[p].result \in {"AlterDroppedTable", "InvalidSchemaVersion",
                                 "InvalidPreVersion"}
            /\ (~op[p].dropped0 /\ op[p].cur0 < op[p].ver)
                   => op[p].result = "InvalidPreVersion"

\* An alter with pre_schema_version 0 on a table at version 2 was refused.
C9_Witness ==
    \E p \in Procs :
        /\ AlterSchemaReturned(p)
        /\ op[p].cur0 = 2 /\ op[p].pre = 0
        /\ op[p].result = "InvalidPreVersion"

NoOperation == \A p \in Procs : pc[p] = "idle"

\* C10: an alter that returns an error has left nothing behind: the WAL, the
\* manifest and the in-memory schema and options are what they were before
\* the call, no entry of the WAL comes from an alter that failed, and, as long
\* as no crash cut an operation short, a replay of the WAL tail over the
\* manifest gives the manifest's own schema and options between operations.
C10_AlterAllOrNothing ==
    /\ \A p \in Procs :
          pc[p] = "unlock" /\ IsAlter(op[p].kind) /\ op[p].result # "Ok" =>
              NothingWritten(p)
    /\ alter_errs = {}
    /\ NoOperation /\ crashes = 0 =>
          /\ ReplaySchema(last_flushed, manifest.schema_version)
                 = manifest.schema_version
          /\ ReplayOptions(last_flushed, manifest.options) = manifest.options

\* --------------------------------------------------- properties of the WAL

\* The writes that returned Ok, by their place in write_results.
OkWrites == {i \in 1..Len(write_results) : write_results[i].result = "Ok"}

\* The writes that returned an error.
ErrWrites == {i \in 1..Len(write_results) : write_results[i].result # "Ok"}

\* Offsets (from 1) of the persisted messages written by the call with this id.
PersistedBy(id) == {k \in 1..Len(log_topic) : log_topic[k].payload[1] = id}

\* No two persisted entries of one table carry the same sequence number.
NoSequenceTwice ==
    \A i, k \in 1..Len(log_topic) :
        /\ i # k
        /\ log_topic[i].table_id = log_topic[k].table_id
        => log_topic[i].sequence_num # log_topic[k].sequence_num

\* C11: for every table the sequence returned by a successful write is larger
\* than the sequence returned by every write of the table that succeeded
\* before it, and no two persisted entries of a table have the same sequence
\* number, however the write calls interleave.
C11_SequenceMonotonic ==
    /\ \A i, k \in OkWrites :
          i < k /\ write_results[i].table_id = write_results[k].table_id
          => write_results[i].sequence < write_results[k].sequence
    /\ NoSequenceTwice

\* C12: a write of n >= 1 entries that returned Ok has put its n entries on
\* the log with n consecutive sequence numbers in the order of the batch, and
\* has returned the sequence number of the last one.
C12_ConsecutiveSequences ==
    \A i \in OkWrites :
        LET r == write_results[i]
            at == PersistedBy(r.id)
        IN  /\ r.len >= 1
            /\ Cardinality(at) = r.len
            /\ \A k \in at :
                  /\ log_topic[k].payload[2] = k - MinOf(at) + 1
                  /\ log_topic[k].sequence_num = r.first_sequence + k - MinOf(at)
            /\ r.sequence = log_topic[MaxOf(at)].sequence_num

\* A write of two entries has returned Ok.
C12_Witness ==
    \E i \in OkWrites : write_results[i].len = 2

\* C13: a write that returned an error has persisted none of its entries, a
\* write that returned Ok has persisted all of them, and no write reuses the
\* sequence number of a persisted entry.
C13_WriteAllOrNothing ==
    /\ \A i \in ErrWrites : PersistedBy(write_results[i].id) = {}
    /\ \A i \in OkWrites :
          Cardinality(PersistedBy(write_results[i].id)) = write_results[i].len
    /\ NoSequenceTwice

\* C14: sequence numbers start at 1: the first entry of the log has sequence
\* 1 and no entry has sequence 0.
C14_SequencesStartAtOne ==
    /\ \A k \in 1..Len(log_topic) : log_topic[k].sequence_num >= 1
    /\ \A t \in TableIds, k \in 1..Len(log_topic) :
          /\ log_topic[k].table_id = t
          /\ \A i \in 1..(k - 1) : log_topic[i].table_id # t
          => log_topic[k].sequence_num = 1

\* The entries of one table that a finished scan returned, in that order.
RECURSIVE EntriesOfTable(_, _)
EntriesOfTable(out, t) ==
    IF out = <<>> THEN <<>>
    ELSE IF Head(out).table_id = t
         THEN <<Head(out)>> \o EntriesOfTable(Tail(out), t)
         ELSE EntriesOfTable(Tail(out), t)

\* C17: a finished scan of the region has returned every entry that was
\* written and not deleted when it began, each once and with its payload, and
\* the entries of a table in ascending order of sequence number.
C17_ReadReturnsWritten ==
    scan.pc = "done" =>
        /\ \A e \in scan.live :
              Cardinality({k \in 1..Len(scan.out) : scan.out[k] = e}) = 1
        /\ \A t \in TableIds :
              LET es == EntriesOfTable(scan.out, t)
              IN  \A k \in 1..(Len(es) - 1) :
                      es[k].sequence_num < es[k + 1].sequence_num


\* ---------------------------------------------------- the bucket monitor

\* C15 (as claimed): a shard table of a bucket is dropped only after the
\* meta-table edit deleting the record of the bucket has been persisted, and
\* when persisting that edit fails none of the tables of the bucket has been
\* dropped.
C15_DropAfterMetaEdit ==
    /\ \A b \in monitor.opened :
           (\E s \in Shards : <<b, s>> \notin kv_tables) => b \notin meta_table
    /\ monitor.result = "PurgeBucket" =>
           \A b \in monitor.expired, s \in Shards : <<b, s>> \in kv_tables

\* C15 (amended): the record of a bucket is deleted from the meta table only
\* after all shard tables of all expired buckets have been dropped; when a
\* drop fails no record has been deleted and the buckets are still in the
\* bucket set; when persisting the deletes fails, the tables are gone and the
\* records and the bucket set are as they were.
C15_MetaEditAfterDrop ==
    /\ \A b \in monitor.opened :
           b \notin meta_table => \A s \in Shards : <<b, s>> \notin kv_tables
    /\ monitor.result = "DropShard" =>
           /\ meta_table = monitor.meta0
           /\ monitor.expired \subseteq bucket_set
    /\ monitor.result = "PurgeBucket" =>
           /\ meta_table = monitor.meta0
           /\ monitor.expired \subseteq bucket_set
           /\ \A b \in monitor.expired, s \in Shards : <<b, s>> \notin kv_tables

\* A purge has deleted the record of a bucket that had been opened, and
\* another purge has failed to drop a table.
C15_Witness ==
    /\ \E b \in monitor.opened : b \notin meta_table
    /\ monitor.result = "DropShard"


\* ------------------------------------------------------- the log cleaner

C20_KeyOrder ==
    log_key.enc_a # NoBytes =>
        /\ BytesLess(log_key.enc_a, log_key.enc_b) <=>
               LogKeyLess(log_key.a, log_key.b)
        /\ log_key.enc_a = log_key.enc_b <=> log_key.a = log_key.b

\* Two encoded keys of one region whose sequence numbers are ordered against
\* their lowest bytes, and two keys ordered by region against their sequence.
C20_Witness ==
    /\ log_key.enc_a # NoBytes
    /\ \/ /\ log_key.a.region_id = log_key.b.region_id
          /\ log_key.a.sequence_num < log_key.b.sequence_num
          /\ log_key.a.sequence_num % 256 > log_key.b.sequence_num % 256
       \/ /\ log_key.a.region_id < log_key.b.region_id
          /\ log_key.a.sequence_num > log_key.b.sequence_num


\* ------------------------------------------------------- contiguous row

\* C18: a row written by a ContiguousRowWriter and read back yields, for
\* every column of the table, the datum written, and null exactly where the
\* row had a null or the writer's schema lacks the column.
C18_RowRoundTrip ==
    contiguous_row.pc = "done" /\ contiguous_row.schema # <<>> =>
        \A c \in 1..Len(contiguous_row.schema) :
            contiguous_row.views[c] =
                IF HasColumn(contiguous_row, c)
                THEN DatumOf(contiguous_row, c) ELSE DatumNull


\* --------------------------------------------------- parquet SST builder

\* C19: a build writes every row of the input stream once and in the order
\* of the stream and reports their number as row_num, whatever the sizes of
\* the record batches and num_rows_per_row_group are; it does not panic.
C19_EveryRowOnce ==
    /\ sst_build.pc # "panic"
    /\ sst_build.pc = "done" =>
           /\ sst_build.encoded = RowsOf(sst_build.input)
           /\ sst_build.total_row_num = Len(RowsOf(sst_build.input))

\* The rows of the row group at place g of fetched_record_batch: the record
\* batches that one encode_record_batch call writes and that share one set
\* of bloom filters.
RowGroupRows(g) == Len(RowsOf(sst_build.fetched_record_batch[g]))

\* C40: a build does not panic, and of the row groups it has partitioned the
\* stream into, each but the last has exactly num_rows_per_row_group rows and
\* the last has at most that many, whatever the sizes of the record batches
\* are.
C40_RowGroupsOfConfiguredSize ==
    /\ sst_build.pc # "panic"
    /\ sst_build.pc = "encode" =>
           \A g \in 1..Len(sst_build.fetched_record_batch) :
               IF g < Len(sst_build.fetched_record_batch)
               THEN RowGroupRows(g) = sst_build.num_rows_per_row_group
               ELSE RowGroupRows(g) <= sst_build.num_rows_per_row_group

\* ------------------------------------------- flush callers and the flush task

\* The call j of flush_sequentially has returned to its caller.
FlushReturned(j) == jobs[j].ret # "none"

\* C28: a call of flush_sequentially with block_on_write_thread whose flush
\* job returned an error returns an error to its caller, never Ok.
C28_BlockingFlushReturnsError ==
    \A j \in Jobs :
        jobs[j].block /\ jobs[j].res \in FlushErrors /\ FlushReturned(j)
            => jobs[j].ret # "Ok"

\* The flush an alter schema of p has made is over and its job succeeded.
FlushedBeforeAlter(p) ==
    /\ op[p].job # 0
    /\ jobs[op[p].job].res = "ok"
    /\ jobs[op[p].job].pc = "done"

\* C21: an alter schema is at or past its WAL append only after its blocking
\* flush has completed with success; when that flush has failed the alter
\* returns an error and has written neither WAL nor manifest.
C21_AlterAfterSuccessfulFlush ==
    \A p \in Procs :
        /\ pc[p] \in {"as_wal", "as_manifest", "as_set"} => FlushedBeforeAlter(p)
        /\ (AlterSchemaReturned(p) /\ op[p].job # 0
               /\ jobs[op[p].job].res \in FlushErrors)
              => op[p].result # "Ok" /\ NothingWritten(p)

\* ------------------------------------------------- order of an alter's steps

\* The alter of p has appended its entry, and nothing else, to the WAL.
AlterInWal(p, entry) == Len(wal) = op[p].wal0 + 1 /\ wal[Len(wal)] = entry

\* The table data in memory is what it was when the request was validated.
MemoryUntouched(p) == schema_version = op[p].cur0 /\ options = op[p].opt0

\* C22: an alter schema or alter options appends to the WAL before it updates
\* the manifest, and changes the schema or options in memory only after both
\* have succeeded: before the WAL append nothing is written, between the two
\* only the WAL has the entry, after the store_update WAL and manifest have
\* it and the memory is still unchanged, and an alter that has returned with
\* the memory changed has returned Ok with WAL and manifest written.
C22_WalManifestMemory ==
    \A p \in Procs :
        LET as_entry == WalEntry("AlterSchema", op[p].ver, "none")
            ao_entry == WalEntry("AlterOption", 0, op[p].opt)
            as_man == [op[p].man0 EXCEPT !.schema_version = op[p].ver]
            ao_man == [op[p].man0 EXCEPT !.options = op[p].opt]
        IN  /\ pc[p] \in {"as_wal", "ao_wal"} => NothingWritten(p)
            /\ pc[p] = "as_manifest" =>
                  AlterInWal(p, as_entry) /\ manifest = op[p].man0
                      /\ MemoryUntouched(p)
            /\ pc[p] = "ao_manifest" =>
                  AlterInWal(p, ao_entry) /\ manifest = op[p].man0
                      /\ MemoryUntouched(p)
            /\ pc[p] = "as_set" =>
                  AlterInWal(p, as_entry) /\ manifest = as_man
                      /\ MemoryUntouched(p)
            /\ pc[p] = "ao_set" =>
                  AlterInWal(p, ao_entry) /\ manifest = ao_man
                      /\ MemoryUntouched(p)
            /\ (pc[p] = "unlock" /\ op[p].kind = "alter_schema"
                   /\ ~MemoryUntouched(p)) =>
                  /\ op[p].result = "Ok"
                  /\ AlterInWal(p, as_entry) /\ manifest = as_man
                  /\ schema_version = op[p].ver /\ options = op[p].opt0
            /\ (pc[p] = "unlock" /\ op[p].kind = "alter_options"
                   /\ ~MemoryUntouched(p)) =>
                  /\ op[p].result = "Ok"
                  /\ AlterInWal(p, ao_entry) /\ manifest = ao_man
                  /\ options = op[p].opt /\ schema_version = op[p].cur0
            /\ (pc[p] = "unlock" /\ IsAlter(op[p].kind) /\ op[p].result # "Ok")
                  => MemoryUntouched(p)

\* An alter schema and an alter options have both gone through: the second
\* has returned Ok with its options installed after the schema of the first.
C22_Witness ==
    \E p \in Procs :
        /\ pc[p] = "unlock" /\ op[p].kind = "alter_options"
        /\ op[p].result = "Ok" /\ options = "o2"
        /\ schema_version = 2 /\ manifest.schema_version = 2
        /\ manifest.options = "o2" /\ Len(wal) = 2

\* ------------------------------------------------------ the flush-state mutex

\* The positions at which a caller of flush_sequentially is suspended or has
\* left the loop: waiting for the notifier, about to run or awaiting its
\* task, returned, or waiting for the reply.
OutsideBlock == {"fs_wait", "fs_spawn", "fs_block", "fs_ret", "mf_recv"}

TaskDone(j) == jobs[j].pc = "done"

\* C27: the continuation on_flush_success runs once when the flush job
\* returned Ok and never when it returned an error: it is about to run only
\* after an Ok and only if it has not run, a task that is past it after an Ok
\* has run it, and after an error it has not run and is not going to.
C27_ContinuationOnSuccess ==
    \A j \in Jobs :
        /\ jobs[j].cont_ran => jobs[j].res = "ok"
        /\ jobs[j].pc = "continuation" => jobs[j].res = "ok" /\ ~jobs[j].cont_ran
        /\ (jobs[j].res = "ok" /\ jobs[j].pc \in {"send_result", "done"})
              => jobs[j].cont_ran
        /\ jobs[j].res \in FlushErrors =>
              ~jobs[j].cont_ran /\ jobs[j].pc # "continuation"

\* Two tasks are over: the job of the first returned Ok and its continuation
\* has run, the job of the second returned an error and its has not.
C27_Witness ==
    \E j1 \in Jobs, j2 \in Jobs :
        /\ TaskDone(j1) /\ jobs[j1].res = "ok" /\ jobs[j1].cont_ran
        /\ TaskDone(j2) /\ jobs[j2].res = "E1" /\ ~jobs[j2].cont_ran

\* The synchronous manual flush of p has returned.
SyncFlushReturned(p) ==
    /\ pc[p] = "unlock" /\ op[p].kind = "flush"
    /\ op[p].job # 0 /\ jobs[op[p].job].sender

\* C25: of a flush job started with a reply channel, the one message sent on
\* the channel is the job's result: nothing is sent before the job is over,
\* what was sent is the result, a task that is over has sent it; so a
\* synchronous manual flush whose job was started returns Ok exactly when the
\* job returned Ok, and a job without a channel sends nothing.
C25_ReplyIsJobResult ==
    /\ \A j \in Jobs :
          /\ jobs[j].reply # "none" =>
                jobs[j].sender /\ Finished(j) /\ jobs[j].reply = jobs[j].res
          /\ (jobs[j].sender /\ TaskDone(j)) => jobs[j].reply = jobs[j].res
          /\ jobs[j].pc = "send_result" => jobs[j].sender /\ jobs[j].reply = "none"
    /\ \A p \in Procs :
          (SyncFlushReturned(p) /\ Scheduled(op[p].job)) =>
              /\ Finished(op[p].job)
              /\ op[p].result = "Ok" <=> jobs[op[p].job].res = "ok"

\* A synchronous manual flush has returned the error of its own job.
C25_Witness ==
    \E p \in Procs :
        /\ SyncFlushReturned(p)
        /\ jobs[op[p].job].res = "E2" /\ jobs[op[p].job].reply = "E2"
        /\ op[p].result = "ManualFlush"

\* ------------------------------------------------------------ cancellation

\* C23: cancelling the caller of a flush never cancels the flush task, be the
\* task spawned or awaited in-line: no task is dropped, and the state is
\* Flushing only while a call is about to start its task or a task is on its
\* way to on_flush_finished.
C23_CancelKeepsTask ==
    /\ \A j \in Jobs : jobs[j].pc # "dropped"
    /\ flush_state.kind = "Flushing" =>
          \/ \E j \in Jobs : InFlight(j)
          \/ \E p \in Procs : pc[p] = "fs_spawn"

\* The notification of task j failed: the task is past `notifier.send` and
\* nobody was notified.
NotifyFailed(j) ==
    /\ jobs[j].pc \in {"continuation", "send_result", "done"}
    /\ ~jobs[j].notified

\* C24: a task whose notification found no receiver, the scheduler having
\* been dropped while the task ran, has set the state from its job's result
\* all the same, and once it is over it has run the continuation exactly
\* after an Ok and has sent the result on its reply channel.
C24_TaskOutlivesScheduler ==
    \A j \in Jobs :
        NotifyFailed(j) =>
            /\ serial_exec = NoExecutor
            /\ jobs[j].set_to = StateFromResult(jobs[j].res)
            /\ TaskDone(j) =>
                  /\ jobs[j].cont_ran <=> jobs[j].res = "ok"
                  /\ jobs[j].sender => jobs[j].reply = jobs[j].res

\* A task is over after a failed notification: its job returned Ok, the state
\* is Ready, the continuation has run and the result was passed to the reply
\* channel of a caller that was cancelled before the table was closed.
C24_Witness ==
    \E j \in Jobs :
        /\ NotifyFailed(j) /\ TaskDone(j)
        /\ jobs[j].res = "ok" /\ flush_state = Ready
        /\ jobs[j].cont_ran /\ jobs[j].sender /\ jobs[j].reply = "ok"

\* ----------------------------------------------------------- schema version

\* C29 as claimed: an alter schema whose new version is not greater than the
\* current schema version fails with InvalidSchemaVersion and changes nothing.
C29_Claimed ==
    \A p \in Procs :
        AlterSchemaReturned(p) /\ ~(op[p].cur0 < op[p].ver) =>
            op[p].result = "InvalidSchemaVersion" /\ NothingWritten(p)

\* C29 as amended: the schema version never decreases; an alter schema that
\* returned Ok had a new version greater than the current one and has
\* installed it; one whose new version is not greater has failed and changed
\* nothing, with AlterDroppedTable on a dropped table and with
\* InvalidSchemaVersion on any other.
C29_SchemaVersionIncreases ==
    /\ [](\A p \in Procs :
             AlterSchemaReturned(p) =>
                 /\ op[p].result = "Ok" =>
                       op[p].cur0 < op[p].ver /\ schema_version = op[p].ver
                 /\ ~(op[p].cur0 < op[p].ver) =>
                       /\ NothingWritten(p)
                       /\ op[p].result = IF op[p].dropped0
                                         THEN "AlterDroppedTable"
                                         ELSE "InvalidSchemaVersion")
    /\ [][schema_version' >= schema_version]_vars

\* After an alter to version 3, an alter to version 2 was refused with
\* InvalidSchemaVersion.
C29_Witness ==
    \E p \in Procs :
        /\ AlterSchemaReturned(p)
        /\ op[p].cur0 = 3 /\ op[p].ver = 2 /\ schema_version = 3
        /\ op[p].result = "InvalidSchemaVersion"

\* ------------------------------------------------ sync of the meta snapshot

\* Every write and every mark_delete_to has returned, and the region's meta
\* is what the last mark_delete_to made its snapshot of: no write has
\* changed it since.
RegionQuiet ==
    /\ NoWriteInside
    /\ \A m \in Markers : markers[m].pc = "idle"
    /\ mark_hist.snapshot.no > 0
    /\ region_meta = mark_hist.snapshot.meta

\* The snapshots in the meta topic, in the order of their offsets, are in
\* the order they were made.
InOrderTaken(records) ==
    \A i \in 1..Len(records), k \in 1..Len(records) :
        i < k => records[i].no < records[k].no

MessagesIn(from, to) == SubSeq(log_topic, from + 1, to)

\* The next call of next_log_entry asks the consumer for the message at
\* scan.pos, and waits for it when the topic does not hold it yet.
AsksConsumer == scan.pc = "iter" /\ ~scan.is_terminated

\* C31 (as claimed): an iterator over [start, t) has yielded the messages of
\* the range it has passed, in offset order; when it has returned None it has
\* yielded exactly the messages of [start, t); and it never asks the consumer
\* for a message at or beyond t, the empty range included.
C31_IteratorYieldsRange ==
    /\ scan.pc \in {"iter", "done"} =>
           scan.out = MessagesIn(scan.inclusive_start, scan.pos)
    /\ scan.pc = "done" => scan.pos = scan.terminate_offset
    /\ AsksConsumer => scan.pos < scan.terminate_offset

\* ------------------------------------- the threads that ask for a bucket

\* How often x occurs in the sequence s.
Occurrences(s, x) == Cardinality({i \in 1..Len(s) : s[i] = x})

\* The thread's last call returned a bucket.
GotBucket(c) == callers[c].pc = "idle" /\ callers[c].bucket > 0

\* C33: however the calls of the threads for the bucket of a window
\* interleave, insert_bucket never finds a bucket to overwrite, the record of
\* a window is persisted at most once and its bucket made at most once, both
\* exactly once for a window whose bucket is in the bucket set, and all
\* callers that got the bucket of a window got the same object.
C33_BucketCreatedOnce ==
    /\ \A c \in Callers : callers[c].pc # "panic"
    /\ \A d \in 0..MaxDays :
           /\ Occurrences(bucket_hist.persisted, d) <= 1
           /\ Occurrences(bucket_hist.made, d) <= 1
           /\ d \in bucket_set =>
                  /\ Occurrences(bucket_hist.persisted, d) = 1
                  /\ Occurrences(bucket_hist.made, d) = 1
    /\ \A c \in Callers, d \in Callers :
           GotBucket(c) /\ GotBucket(d)
             /\ callers[c].start_ms = callers[d].start_ms =>
               callers[c].bucket = callers[d].bucket

\* A writer that did not find the bucket of its window has locked the bucket
\* creator after the monitor created that bucket, and the monitor has got it.
C33_Witness ==
    \E c \in Callers, d \in Callers :
        /\ callers[c].from = "write_log"
        /\ callers[c].pc = "creator_get"
        /\ callers[c].start_ms \in bucket_set
        /\ callers[d].from = "bucket_monitor_routine"
        /\ GotBucket(d)
        /\ callers[d].start_ms = callers[c].start_ms

\* ------------------------------------------- the runs of the bucket monitor

\* The monitor has finished a run.
RunEnded == monitor.pc = "idle" /\ monitor.result # "none"

\* No table-kv operation of the run failed: create_next_bucket and
\* purge_expired_buckets returned Ok.
RunSucceeded == RunEnded /\ monitor.created /\ monitor.result = "Ok"

\* The bucket has ended at or before now - ttl.
IsExpired(b, now) == b + 1 <= now - TtlDays

\* What the claim says of the bucket set a run at `now` leaves: the bucket of
\* the next window is in it, no expired bucket is, and every bucket the run
\* found that is not expired still is.
LeftByRun ==
    /\ monitor.now + 1 \in bucket_set
    /\ \A b \in bucket_set : ~IsExpired(b, monitor.now)
    /\ \A b \in monitor.buckets0 : ~IsExpired(b, monitor.now) => b \in bucket_set

C35_TasksFollowTtl ==
    namespace_obj.state = "open" =>
        /\ namespace_obj.monitor_handle <=> namespace_obj.config # "none"
        /\ namespace_obj.cleaner_handle <=> namespace_obj.config = "none"
        /\ namespace_obj.monitor_handle # namespace_obj.cleaner_handle
        /\ namespace_obj.config = "none" /\ namespace_obj.monitor_ran =>
               bucket_set = {PermanentBucket}

\* --------------------------------------------- the purge next to a reader

\* The buckets a read in progress has listed and not scanned yet.
ToScan == IF reader.pc = "iter" THEN reader.buckets \ reader.scanned ELSE {}

\* C36: while a reader of the log iterates, the shard table of its region
\* exists in every bucket it listed and has not scanned yet, so that no purge
\* has dropped the tables of a bucket the reader holds; and a read that has
\* ended has scanned every bucket it listed and returned no error.
C36_PurgeSparesReader ==
    /\ \A b \in ToScan : <<b, reader.shard>> \in kv_tables
    /\ reader.pc = "done" =>
           reader.result = "Ok" /\ reader.scanned = reader.buckets

\* ------------------------------------------------- the regions in memory

\* The thread holds a Region: it is about to write to it or has done so.
HoldsRegion(o) == openers[o].region # 0 /\ openers[o].pc \in {"write", "idle"}

\* C37: however the calls that open or create a region interleave, every
\* caller holds the one Region object the map has for the id, and the entries
\* written to a region have the sequence numbers 1, 2, ... in the order of
\* the writes, each once: they come from one counter.
C37_OneRegionObject ==
    /\ \A o \in Openers :
           HoldsRegion(o) =>
               openers[o].region = regions_by_id[openers[o].region_id]
    /\ \A r \in 1..NumKvRegions :
           LET written == {k \in 1..Len(region_log) :
                               region_log[k].region_id = r}
           IN  \A k \in written :
                   region_log[k].sequence =
                       Cardinality({j \in written : j <= k})

\* Two threads made a Region object each for the same id; the map took one
\* of them, both threads hold that one, and both have written to it.
C37_Witness ==
    \E o \in Openers, v \in Openers :
        /\ openers[o].made # 0 /\ openers[v].made # 0
        /\ openers[o].made # openers[v].made
        /\ openers[o].region_id = openers[v].region_id
        /\ openers[o].pc = "idle" /\ openers[v].pc = "idle"
        /\ openers[o].region = openers[v].region
        /\ Len(region_log) >= 2

\* ------------------------------------------------- the request notifiers

\* The calls for the key that took effect, by their place in the history.
EventsOf(key) ==
    {i \in 1..Len(dedup_hist.events) : dedup_hist.events[i].key = key}

\* The call at place i is the first for its key, or the first after a
\* take_notifiers call for its key.
OpensRound(i) ==
    LET before == {j \in EventsOf(dedup_hist.events[i].key) : j < i}
    IN  before = {} \/ dedup_hist.events[MaxOf(before)].op = "take"

\* C38: for each key, in the order in which the calls take effect, the
\* insert_notifier call that follows a take_notifiers call (or is the first
\* of all) returns First and every other insert_notifier call returns Wait:
\* between two consecutive takes that have an insert between them, exactly one
\* insert returns First.
C38_OneFirstPerRound ==
    \A i \in 1..Len(dedup_hist.events) :
        dedup_hist.events[i].op = "insert" =>
            (dedup_hist.events[i].result = "First" <=> OpensRound(i))

\* An insert_notifier call that found no key under the read lock found the
\* key under the write lock and returned Wait, after a call that returned
\* First.
C38_Witness ==
    \E i \in 1..Len(dedup_hist.events), j \in 1..Len(dedup_hist.events) :
        /\ i < j
        /\ dedup_hist.events[i].result = "First"
        /\ dedup_hist.events[j].result = "Wait"
        /\ dedup_hist.events[j].path = "write"
        /\ dedup_hist.events[j].key = dedup_hist.events[i].key
        /\ \A k \in (i + 1)..(j - 1) : dedup_hist.events[k].op # "take"

\* How often the notifier was returned by a take_notifiers call for the key.
TimesTaken(key, n) ==
    Cardinality({<<i, k>> \in (1..Len(dedup_hist.events)) \X (1..MaxNotifiers) :
                     /\ dedup_hist.events[i].op = "take"
                     /\ dedup_hist.events[i].key = key
                     /\ k <= Len(dedup_hist.events[i].taken)
                     /\ dedup_hist.events[i].taken[k] = n})

\* How often the notifier is registered under the key.
TimesRegistered(key, n) ==
    Cardinality({k \in 1..Len(notifiers[key]) : notifiers[key][k] = n})

\* C39: a notifier whose insert_notifier call has taken effect is either
\* registered under its key, once, or was returned by one take_notifiers call
\* for its key, once, and never both; it is neither registered under nor
\* returned for another key; and when the last call that took effect is a
\* take_notifiers call, its key is absent from the map.
C39_NotifierTakenOnce ==
    /\ \A i \in 1..Len(dedup_hist.events) :
           dedup_hist.events[i].op = "insert" =>
               \A key \in RequestKeys :
                   TimesRegistered(key, dedup_hist.events[i].notifier)
                     + TimesTaken(key, dedup_hist.events[i].notifier)
                   = IF key = dedup_hist.events[i].key THEN 1 ELSE 0
    /\ dedup_hist.events # <<>> =>
           LET last == dedup_hist.events[Len(dedup_hist.events)]
           IN  last.op = "take" => ~HasKey(last.key)

\* A take_notifiers call returned notifiers while an insert_notifier call
\* for the key was between its two locks; that call's notifier was not
\* returned then, and a later take_notifiers call has returned it.
C39_Witness ==
    \E i \in 1..Len(dedup_hist.events), j \in 1..Len(dedup_hist.events) :
        /\ i < j
        /\ dedup_hist.events[i].op = "take"
        /\ dedup_hist.events[i].taken # <<>>
        /\ dedup_hist.events[j].op = "take"
        /\ dedup_hist.events[j].key = dedup_hist.events[i].key
        /\ \E n \in dedup_hist.events[i].inflight :
               \E k \in 1..Len(dedup_hist.events[j].taken) :
                   dedup_hist.events[j].taken[k] = n

====
